---- MODULE Spec2Model ----
(***************************************************************************)
(* TFTP read-only engine of bootServer (src/bootServer/tftp_server.py).    *)
(*                                                                         *)
(* Bytes are integers 0..255, byte strings and text are sequences of them  *)
(* (text is ASCII; the only non-ASCII byte used is 255, which is never     *)
(* valid UTF-8).  A path is a sequence of components, each a byte string.  *)
(* The filesystem holds no symbolic links, so Path.resolve() is the        *)
(* lexical normalisation.                                                  *)
(***************************************************************************)
EXTENDS Integers, Sequences, FiniteSets, TLC

\* ---------------------------------------------------------------- bounds
MaxRequests == 1        \* datagrams the clients send to the listener
MaxBinds == 1           \* sockets one TftpServer binds over a run
MaxStarts == 2          \* HTTP servers one bootServer binds over a run
MaxRebinds == 2         \* sockets a restarted TftpServer binds over a run
BigBlocks == 65537      \* full 512-byte blocks in the large file

\* ------------------------------------------------------- program constants
OP_RRQ == 1
OP_DATA == 3
OP_ACK == 4
OP_ERROR == 5
BLOCK_SIZE == 512
BlockModulus == 65536
AckRecvSize == 4
NUL == 0
Slash == 47
Dot == 46

\* ------------------------------------------------------------ text tables
s_octet == <<111, 99, 116, 101, 116>>
s_binary == <<98, 105, 110, 97, 114, 121>>
s_OCTET == <<79, 67, 84, 69, 84>>
s_Binary == <<66, 105, 110, 97, 114, 121>>
s_netascii == <<110, 101, 116, 97, 115, 99, 105, 105>>
s_mail == <<109, 97, 105, 108>>
s_octet_ff == <<111, 99, 116, 255, 101, 116>>
s_srv == <<115, 114, 118>>
s_boot == <<98, 111, 111, 116>>
s_boot_evil == <<98, 111, 111, 116, 45, 101, 118, 105, 108>>
s_secret == <<115, 101, 99, 114, 101, 116>>
s_x == <<120>>
s_d == <<100>>
s_big == <<98, 105, 103>>
s_f0 == <<102, 48>>
s_f1 == <<102, 49>>
s_f511 == <<102, 53, 49, 49>>
s_f512 == <<102, 53, 49, 50>>
s_f513 == <<102, 53, 49, 51>>
s_f800 == <<102, 56, 48, 48>>
s_f1024 == <<102, 49, 48, 50, 52>>
s_onlyname == <<111, 110, 108, 121, 110, 97, 109, 101>>
s_not_found == <<110, 111, 116, 32, 102, 111, 117, 110, 100>>
n_missing == <<109, 105, 115, 115, 105, 110, 103, 46, 98, 105, 110>>
n_up_secret == <<46, 46, 47, 115, 101, 99, 114, 101, 116>>
n_sibling == <<46, 46, 47, 98, 111, 111, 116, 45, 101, 118, 105, 108, 47, 120>>
n_sibling_missing == <<46, 46, 47, 98, 111, 111, 116, 45, 101, 118, 105, 108, 47, 109>>
n_back == <<46, 46, 47, 98, 111, 111, 116, 47, 102, 49>>
n_abs == <<47, 102, 49>>
n_dot == <<46, 47, 100, 47, 46, 46, 47, 102, 49>>
n_updir == <<46, 46>>
m_invalid == <<73, 110, 118, 97, 108, 105, 100, 32, 112, 97, 99, 107, 101, 116>>
m_illegal == <<73, 108, 108, 101, 103, 97, 108, 32, 84, 70, 84, 80, 32, 111, 112, 101, 114, 97, 116, 105, 111, 110>>
m_malformed == <<77, 97, 108, 102, 111, 114, 109, 101, 100, 32, 82, 82, 81>>
m_mode == <<79, 110, 108, 121, 32, 111, 99, 116, 101, 116, 32, 109, 111, 100, 101, 32, 115, 117, 112, 112, 111, 114, 116, 101, 100>>
m_access == <<65, 99, 99, 101, 115, 115, 32, 118, 105, 111, 108, 97, 116, 105, 111, 110>>
m_notfound == <<70, 105, 108, 101, 32, 110, 111, 116, 32, 102, 111, 117, 110, 100>>
m_server == <<83, 101, 114, 118, 101, 114, 32, 101, 114, 114, 111, 114>>

\* --------------------------------------------------------- byte utilities
Min(a, b) == IF a < b THEN a ELSE b

\* bs[:n]; also recvfrom(n), which returns at most the first n bytes of a
\* datagram
Take(bs, n) == SubSeq(bs, 1, Min(n, Len(bs)))

Drop(bs, n) == SubSeq(bs, n + 1, Len(bs))

StartsWith(str, prefix) ==
    /\ Len(prefix) <= Len(str)
    /\ SubSeq(str, 1, Len(prefix)) = prefix

Contains(str, sub) ==
    \E i \in 0..(Len(str) - Len(sub)) : SubSeq(str, i + 1, i + Len(sub)) = sub

\* struct.pack("!H", x): big-endian, defined for 0 <= x <= 65535 only
PackRange(x) == x \in 0..(BlockModulus - 1)

Pack16(x) == << x \div 256, x % 256 >>

\* an unpack that reads the low byte only
Unpack16LowByte(bs) == bs[2]

\* struct.unpack("!H", two bytes)
Unpack16(bs) == bs[1] * 256 + bs[2]

\* bytes.split(sep) for a one-byte separator
RECURSIVE Split(_, _)
Split(bs, sep) ==
    IF \A i \in 1..Len(bs) : bs[i] # sep
    THEN << bs >>
    ELSE LET i == CHOOSE k \in 1..Len(bs) :
                      bs[k] = sep /\ \A j \in 1..(k - 1) : bs[j] # sep
         IN  << SubSeq(bs, 1, i - 1) >> \o Split(Drop(bs, i), sep)

\* bytes.decode("utf-8", errors="ignore") on ASCII bytes and invalid bytes
Decode(bs) == SelectSeq(bs, LAMBDA b : b < 128)

\* str.lower() on ASCII text
Lower(str) == [i \in 1..Len(str) |-> IF str[i] \in 65..90 THEN str[i] + 32 ELSE str[i]]

\* str.lstrip("/")
RECURSIVE LStrip(_)
LStrip(str) == IF str # <<>> /\ str[1] = Slash THEN LStrip(Drop(str, 1)) ELSE str

\* ------------------------------------------------------------------ paths
\* self.root_dir = Path(root_dir).resolve(): /srv/boot
root_dir == << s_srv, s_boot >>

\* str(path)
RECURSIVE PathStr(_)
PathStr(p) ==
    IF p = <<>> THEN << Slash >>
    ELSE IF Len(p) = 1 THEN << Slash >> \o p[1]
    ELSE PathStr(SubSeq(p, 1, Len(p) - 1)) \o << Slash >> \o p[Len(p)]

\* pathlib splits a relative name on "/" and drops empty and "." parts
PathParts(name) ==
    SelectSeq(Split(name, Slash), LAMBDA c : c # <<>> /\ c # << Dot >>)

\* Path.resolve(): ".." removes the last component, "/.." is "/"
RECURSIVE Resolve(_, _)
Resolve(base, parts) ==
    IF parts = <<>> THEN base
    ELSE IF Head(parts) = << Dot, Dot >>
         THEN Resolve(IF base = <<>> THEN base ELSE SubSeq(base, 1, Len(base) - 1),
                      Tail(parts))
         ELSE Resolve(Append(base, Head(parts)), Tail(parts))

\* candidate = (self.root_dir / filename.lstrip("/")).resolve()
Candidate(filename) == Resolve(root_dir, PathParts(LStrip(filename)))

\* str(candidate).startswith(str(self.root_dir))
PathAllowed(candidate) == StartsWith(PathStr(candidate), PathStr(root_dir))

\* the first of the ports the OS hands out for port 0
EphemeralBase == 32768

\* ------------------------------------------------------------- filesystem
Entry(path, type, size, seed) ==
    [path |-> path, type |-> type, size |-> size, seed |-> seed]

SmallFs ==
    { Entry(<< s_srv >>, "dir", 0, 0),
      Entry(root_dir, "dir", 0, 0),
      Entry(Append(root_dir, s_d), "dir", 0, 0),
      Entry(Append(root_dir, s_f0), "file", 0, 1),
      Entry(Append(root_dir, s_f1), "file", 1, 2),
      Entry(Append(root_dir, s_f511), "file", 511, 3),
      Entry(Append(root_dir, s_f512), "file", 512, 4),
      Entry(Append(root_dir, s_f513), "file", 513, 5),
      Entry(Append(root_dir, s_f800), "file", 800, 6),
      Entry(Append(root_dir, s_f1024), "file", 1024, 7),
      Entry(<< s_srv, s_secret >>, "file", 5, 8),
      Entry(<< s_srv, s_boot_evil >>, "dir", 0, 0),
      Entry(<< s_srv, s_boot_evil, s_x >>, "file", 3, 9) }

BigSize == BigBlocks * BLOCK_SIZE + 288

BigFs ==
    { Entry(<< s_srv >>, "dir", 0, 0),
      Entry(root_dir, "dir", 0, 0),
      Entry(Append(root_dir, s_big), "file", BigSize, 10),
      Entry(Append(root_dir, s_f1), "file", 1, 2),
      Entry(<< s_srv, s_secret >>, "file", 5, 8) }

\* a test that accepts a directory too (candidate.exists())
IsFileOrDir(files, p) == \E e \in files : e.path = p

\* candidate.is_file()
IsFile(files, p) == \E e \in files : e.path = p /\ e.type = "file"

FileOf(files, p) == CHOOSE e \in files : e.path = p

\* the byte at offset off (0-based) of a file
FileByte(e, off) == (e.seed + off + (off \div 256)) % 256

FileBytes(files, p, off, n) ==
    LET e == FileOf(files, p)
    IN  IF n <= 0 THEN <<>> ELSE [k \in 1..n |-> FileByte(e, off + k - 1)]

\* a read that returns one byte less than asked for
ReadOneLess(files, p, pos, n) ==
    FileBytes(files, p, pos, Min(n - 1, FileOf(files, p).size - pos))

\* f.read(n) at cursor pos: the bytes up to the end of the file, at most n
Read(files, p, pos, n) ==
    FileBytes(files, p, pos, Min(n, FileOf(files, p).size - pos))

\* ---------------------------------------------------------------- packets
Rrq(name, mode) == Pack16(OP_RRQ) \o name \o << NUL >> \o mode \o << NUL >>

DataPacket(block_num, chunk) == Pack16(OP_DATA) \o Pack16(block_num) \o chunk

AckPacket(block) == Pack16(OP_ACK) \o Pack16(block)

ErrorPacket(code, message) ==
    Pack16(OP_ERROR) \o Pack16(code) \o message \o << NUL >>

PlainNames == { s_f0, s_f1, s_f511, s_f512, s_f513, s_f800, s_f1024, s_big }

Names ==
    PlainNames \cup
    { s_d, <<>>, n_missing, n_up_secret, n_sibling, n_sibling_missing, n_back, n_abs,
      n_dot, n_updir }

GoodModes == { s_octet, s_binary, s_OCTET, s_Binary, s_octet_ff }

BadModes == { s_netascii, s_mail, <<>> }

Datagrams ==
    { Rrq(n, s_octet) : n \in Names }
    \cup { Rrq(s_f1, m) : m \in GoodModes \cup BadModes }
    \cup { Rrq(n_up_secret, s_netascii), Rrq(n_sibling, s_Binary) }
    \cup { Pack16(OP_RRQ) \o s_onlyname, Pack16(OP_RRQ), Pack16(OP_RRQ) \o s_f1 \o << NUL >>,
           Pack16(OP_RRQ) \o s_f1 }
    \cup { <<>>, << 0 >>, << 1 >> }
    \cup { Pack16(op) \o s_f1 \o << NUL >> \o s_octet \o << NUL >> : op \in { 0, 2, 9, 257 } }
    \cup { Pack16(OP_DATA) \o Pack16(1) \o s_x, AckPacket(1), Pack16(OP_ACK),
           ErrorPacket(0, m_server) }

Peers == { "c1" }

\* an address that sent no request to the listener
Strangers == { "c9" }

\* ------------------------------------------------------------------ state
VARIABLES
    fs,         \* the filesystem the server runs on
    quota,      \* datagrams the clients will still send to the listener
    sock,       \* self._sock: "none" or "open" (the listener socket)
    sessions,   \* one record per _handle_request thread, in dispatch order
    lsocks,     \* the sockets start() has bound, in order: state "open" or
                \* "closed", dummies the empty datagrams of stop() queued
                \* on it, fault whether its close() has raised; self._sock,
                \* when set, is the last of them
    sock_port,  \* self.sock_port: 0 for None, else the bound port
    thread,     \* self._thread: 0 for None, else an index into loops
    loops,      \* the _serve_loop threads started, in order: sk the socket
                \* (index into lsocks) it was given, pc "recv" or "exited"
    stop_event, \* self._stop_event.is_set()
    call,       \* the thread that calls start() and stop(): the call it is
                \* in or has last finished (svc, op), whether the service
                \* was started when the call began, whether the call raised,
                \* and the line it is at ("idle" between calls)
    script,     \* scripts/serve_boot_artifacts.py: one record per
                \* TFTPServer.handle_request thread, in dispatch order
    web,        \* HttpFileServer ("http") and HttpsFileServer ("https"):
                \* server is self._server (0 for None, else an index into
                \* socks), thread is self._thread (0 for None), sock_port
                \* as above, socks the listening sockets of the servers
    cli,        \* cli.main: the arguments it was called with, the line it
                \* is at, its locals, and what it has called on the server
                \* object: starts and stops count the calls, stop_raised
                \* tells of each stop() call whether it raised
    boot        \* server.py's bootServer: its attributes (0 for None, Unset
                \* for a port not yet assigned), https and tftps the HTTP servers and TFTP
                \* sockets it has bound, each with its thread, and logged
                \* the exceptions stop() has logged
                \* created ("open" or "closed"), serving the state of the
                \* serve_forever thread, certs whether certfile and
                \* keyfile were both given

vars == << fs, quota, sock, sessions, lsocks, sock_port, thread, loops,
           stop_event, call, script, web, boot, cli >>

\* the listener fields and threads of TftpServer besides self._sock
life == << lsocks, sock_port, thread, loops, stop_event, call >>

\* what the steps of bootServer.TftpServer leave alone
outsideEngine == << script, web, boot, cli >>

\* what the steps of the script's TFTPServer leave alone
outsideScript == << sock, sessions, life, web, boot, cli >>

\* what the steps of HttpFileServer and HttpsFileServer leave alone
outsideWeb == << fs, quota, sock, sessions, lsocks, sock_port, thread, loops,
                 stop_event, script, boot, cli >>

\* A _handle_request thread right after threading.Thread(...).start().
\* data, addr, candidate, pos (file cursor), block_num are the handler's
\* locals and chunk_len is len(chunk), all that is used of chunk once it is
\* sent; f and tx are its file handle and per-block socket; log the records
\* it wrote to self.logger.  The other fields are what a wire
\* observer has seen of the session: the ERROR packets, and of the DATA
\* packets their number, the last block number and payload length, how
\* many payload bytes were delivered and whether they equal the file's
\* bytes so far, the number of empty payloads, the full blocks sent, and
\* of the replies how many were the ACK of the outstanding block; live
\* counts the transfer sockets the handler has created and not closed.
NewSession(data, addr) ==
    [ data |-> data, addr |-> addr, pc |-> "validate",
      candidate |-> <<>>, f |-> "none", pos |-> 0,
      block_num |-> 0, chunk_len |-> 0, tx |-> "none", log |-> <<>>,
      errs |-> <<>>, nData |-> 0, lastBlock |-> 0, lastLen |-> 0,
      delivered |-> 0, intact |-> TRUE, nZero |-> 0, nShort |-> 0,
      nAck |-> 0, nReply |-> 0, nForeign |-> 0, lastVia |-> "none",
      live |-> 0 ]

\* the calling thread at line at of operation op of service svc
Enter(svc, op, started, at) ==
    [svc |-> svc, op |-> op, started |-> started, raised |-> FALSE, at |-> at]

\* TftpServer.__init__: no socket, no thread, no port, the event clear
Constructed ==
    /\ sock = "none"
    /\ lsocks = <<>>
    /\ sock_port = 0
    /\ thread = 0
    /\ loops = <<>>
    /\ stop_event = FALSE
    /\ call = Enter("none", "none", FALSE, "idle")

WebServices == { "http", "https" }

\* HttpFileServer.__init__ and HttpsFileServer.__init__
WebConstructed(certfile, keyfile) ==
    [server |-> 0, thread |-> 0, sock_port |-> 0, socks |-> <<>>,
     serving |-> "none", joins |-> 0, certfile |-> certfile,
     keyfile |-> keyfile]

\* a constructed, not yet started server over the small files
\* cli.main entered with parsed arguments args (cli.py lines 31-35)
CliEntered(args) ==
    [ args |-> args, pc |-> "l37", built |-> FALSE, stop_requested |-> FALSE,
      starts |-> 0, start_raised |-> FALSE, stop_raised |-> <<>>,
      pending |-> 0, code |-> 0 ]

\* --root-dir names an existing directory, nothing else asked for
PlainArgs ==
    [ root_exists |-> TRUE, enable_https |-> FALSE,
      ssl_certfile |-> FALSE, ssl_keyfile |-> FALSE ]

\* an attribute bootServer.__init__ does not assign: reading it raises
\* AttributeError
Unset == -1

\* bootServer.__init__ (server.py lines 71-90): no server, socket or
\* thread, the event clear; the port attributes are not yet assigned
BootConstructed(enable_tftp) ==
    [ enable_tftp |-> enable_tftp, stop_event |-> FALSE,
      http_server |-> 0, http_thread |-> 0, http_sock_port |-> Unset,
      tftp_sock |-> 0, tftp_thread |-> 0, tftp_sock_port |-> Unset,
      https |-> <<>>, tftps |-> <<>>, logged |-> {},
      enable_https |-> FALSE, built |-> TRUE ]

\* bootServer(...) called with the keywords of cli.py lines 47-58 and of
\* the tests: the signature (lines 71-79) has no enable_https, https_port,
\* ssl_certfile or ssl_keyfile, so passing them raises TypeError and no
\* object is built
BootRequested(enable_tftp, enable_https) ==
    [BootConstructed(enable_tftp) EXCEPT !.enable_https = enable_https,
                                         !.built = ~enable_https]

Init ==
    /\ fs = SmallFs
    /\ quota = MaxRequests
    /\ Constructed
    /\ sessions = <<>>
    /\ script = <<>>
    /\ web = [svc \in WebServices |-> WebConstructed(TRUE, TRUE)]
    /\ boot = BootConstructed(TRUE)
    /\ cli = CliEntered(PlainArgs)

\* the same over the large file, with a single request to come
InitBig ==
    /\ fs = BigFs
    /\ quota = 1
    /\ Constructed
    /\ sessions = <<>>
    /\ script = <<>>
    /\ web = [svc \in WebServices |-> WebConstructed(TRUE, TRUE)]
    /\ boot = BootConstructed(TRUE)
    /\ cli = CliEntered(PlainArgs)

\* ---------------------------------------------------------------- listener
Idle == call.at = "idle"

At(line) == [call EXCEPT !.at = line]

\* the port the OS gives the k-th socket bound with port 0
PortOf(k) == EphemeralBase + k

\* the socket self._sock refers to, when it is set
Current == Len(lsocks)

\* lines 33-37 of TftpServer.start on a listener that is not started: the
\* socket is created and bound and self._sock set
StartBindUpTo(binds) ==
    /\ Idle
    /\ sock = "none"
    /\ Len(lsocks) < binds
    /\ lsocks' = Append(lsocks, [state |-> "open", dummies |-> 0, fault |-> FALSE])
    /\ sock' = "open"
    /\ call' = Enter("tftp", "start", FALSE, "t38")
    /\ UNCHANGED << fs, quota, sessions, sock_port, thread, loops, stop_event,
                    outsideEngine >>

StartBind == StartBindUpTo(MaxBinds)

\* line 38: self.sock_port = sock.getsockname()[1]
StartPort ==
    /\ call.at = "t38"
    /\ sock_port' = PortOf(Current)
    /\ call' = At("t40")
    /\ UNCHANGED << fs, quota, sock, sessions, lsocks, thread, loops, stop_event,
                    outsideEngine >>

\* lines 40-43: the accept thread is created, the event cleared, the
\* thread started; it enters _serve_loop and blocks in recvfrom
StartThread ==
    /\ call.at = "t40"
    /\ loops' = Append(loops, [sk |-> Current, pc |-> "recv", joins |-> 0,
                              data |-> <<>>, addr |-> "none"])
    /\ thread' = Len(loops) + 1
    /\ stop_event' = FALSE
    /\ call' = At("idle")
    /\ UNCHANGED << fs, quota, sock, sessions, lsocks, sock_port, outsideEngine >>

\* TftpServer.start on a listener that is not started
Start == StartBind \/ StartPort \/ StartThread

\* an accept loop that runs the handler itself instead of line 72's thread
IteratedInline(k) == [loops EXCEPT ![k].pc = "handling"]

\* the loop test after an iteration: while not self._stop_event.is_set()
Iterated(k) == [loops EXCEPT ![k].pc = IF stop_event THEN "exited" ELSE "recv"]

\* the loop k is blocked in recvfrom on a socket that is open
Receiving(k) == loops[k].pc = "recv" /\ lsocks[loops[k].sk].state = "open"

\* TftpServer._serve_loop: one datagram received and handed to a new thread
ServeLoop(data, addr) ==
    /\ quota > 0
    /\ quota' = quota - 1
    /\ \E k \in 1..Len(loops) :
           /\ Receiving(k)
           /\ loops' = Iterated(k)
    /\ sessions' = Append(sessions, NewSession(data, addr))
    /\ UNCHANGED << fs, sock, lsocks, sock_port, thread, stop_event, call,
                    outsideEngine >>

\* ----------------------------------------------------------------- handler
Logged(s, rec) == [s EXCEPT !.log = Append(@, rec)]

\* TftpServer._send_error, on the listener socket
SendError(s, code, message) ==
    IF sock = "none" THEN s
    ELSE IF lsocks[Current].state # "open" THEN Logged(s, "send_failed")
    ELSE [s EXCEPT !.errs = Append(@, [ via |-> "listener", to |-> s.addr,
                                       pkt |-> ErrorPacket(code, message) ])]

Return(s) == [s EXCEPT !.pc = "done"]

\* the mode test without lower()
ModeOkCaseSensitive(mode) == mode \in { s_octet, s_binary }

\* the mode test of line 90
ModeOk(mode) == Lower(mode) \in { s_octet, s_binary }

\* lines 93-106: path checks, then open(candidate, "rb") and block_num = 1
OpenTransfer(s, filename) ==
    LET candidate == Candidate(filename)
    IN  IF ~PathAllowed(candidate)
        THEN Return(SendError(s, 2, m_access))
        ELSE IF ~IsFile(fs, candidate)
        THEN Return(SendError(s, 1, m_notfound))
        ELSE [s EXCEPT !.candidate = candidate, !.f = "open", !.pos = 0,
                       !.block_num = 1, !.pc = "send"]

\* lines 76-106 of _handle_request
Validated(s) ==
    IF Len(s.data) < 2
    THEN Return(SendError(s, 0, m_invalid))
    ELSE IF Unpack16(Take(s.data, 2)) # OP_RRQ
    THEN Return(SendError(s, 4, m_illegal))
    ELSE LET parts == Split(Drop(s.data, 2), NUL)
         IN  IF Len(parts) < 2
             THEN Return(SendError(s, 0, m_malformed))
             ELSE LET filename == Decode(parts[1])
                      mode == Decode(parts[2])
                  IN  IF ~ModeOk(mode)
                      THEN Return(SendError(Logged(s, "rrq"), 0, m_mode))
                      ELSE OpenTransfer(Logged(s, "rrq"), filename)

Validate(i) ==
    /\ sessions[i].pc = "validate"
    /\ sessions' = [sessions EXCEPT ![i] = Validated(sessions[i])]
    /\ UNCHANGED << fs, quota, sock, life, outsideEngine >>

\* what the wire observer notes when a DATA packet leaves on socket via
Observed(s, pkt, via) ==
    LET payload == Drop(pkt, 4)
        n == Len(payload)
    IN  [s EXCEPT !.nData = @ + 1,
                  !.lastBlock = Unpack16(SubSeq(pkt, 3, 4)),
                  !.lastLen = n,
                  !.intact = /\ @
                             /\ s.delivered + n <= FileOf(fs, s.candidate).size
                             /\ payload = FileBytes(fs, s.candidate, s.delivered, n),
                  !.delivered = @ + n,
                  !.nZero = @ + (IF n = 0 THEN 1 ELSE 0),
                  !.nShort = @ + (IF n < BLOCK_SIZE THEN 1 ELSE 0),
                  !.lastVia = via]

\* a reply that is the ACK of block (what the peer is expected to send)
IsMatchingAck(reply, block) ==
    /\ Len(reply) >= 4
    /\ SubSeq(reply, 1, 4) = AckPacket(block)

\* what the wire observer notes when a reply reaches the transfer socket
Replied(s, reply) ==
    [s EXCEPT !.nReply = @ + 1,
              !.nAck = @ + (IF IsMatchingAck(reply, s.lastBlock) THEN 1 ELSE 0)]

\* an except clause that logs and re-raises
ExceptedPropagates(s) == [Logged(s, "exception") EXCEPT !.pc = "raised"]

\* lines 135-138: the handler's except clause
Excepted(s) == Return(SendError(Logged(s, "exception"), 0, m_server))

\* an exception inside the with block: f is closed, then the except clause
Failed(s) == Excepted([s EXCEPT !.f = "closed"])

\* leaving the loop by break: the with block closes f, then line 134
LoopExit(s) == Return(Logged([s EXCEPT !.f = "closed"], "completed"))

\* the increment without the modulus
NextBlockNoWrap(block_num) == block_num + 1

\* the increment wrapping at one byte
NextBlockByteWrap(block_num) == (block_num + 1) % 256

\* block_num = (block_num + 1) % 65536
NextBlock(block_num) == (block_num + 1) % BlockModulus

\* line 111: tx = socket.socket(...)
TxOpen(s) == [s EXCEPT !.tx = "open", !.live = @ + 1]

\* a loop body without the finally clause
TxCloseOmitted(s) == s

\* lines 129-130: finally: tx.close()
TxClose(s) == [s EXCEPT !.tx = "closed", !.live = @ - 1]

\* a handler that reads through a file object shared by the handlers of
\* the same file: the read starts where the farthest of them stands
SentSharedCursor(s) ==
    LET others == { sessions[j].pos : j \in { k \in 1..Len(sessions) :
                        sessions[k].candidate = s.candidate } }
        far == CHOOSE p \in others \cup { s.pos } :
                   \A q \in others \cup { s.pos } : q <= p
        chunk == Read(fs, s.candidate, far, BLOCK_SIZE)
        r == [s EXCEPT !.chunk_len = Len(chunk), !.pos = far + Len(chunk)]
    IN  Observed([TxOpen(r) EXCEPT !.pc = "wait"],
                 DataPacket(s.block_num, chunk), "tx")

\* a handler that sends the DATA packet with self._sock and makes no
\* socket of its own
SentViaListener(s) ==
    LET chunk == Read(fs, s.candidate, s.pos, BLOCK_SIZE)
        r == [s EXCEPT !.chunk_len = Len(chunk), !.pos = @ + Len(chunk)]
    IN  Observed([r EXCEPT !.pc = "wait"], DataPacket(s.block_num, chunk), "listener")

\* lines 109-113: read a chunk, build the DATA packet, send it on a new socket
Sent(s) ==
    LET chunk == Read(fs, s.candidate, s.pos, BLOCK_SIZE)
        r == [s EXCEPT !.chunk_len = Len(chunk), !.pos = @ + Len(chunk)]
    IN  IF ~PackRange(s.block_num)
        THEN Failed(r)
        ELSE Observed([TxOpen(r) EXCEPT !.pc = "wait"],
                      DataPacket(s.block_num, chunk), "tx")

SendData(i) ==
    /\ sessions[i].pc = "send"
    /\ sessions' = [sessions EXCEPT ![i] = Sent(sessions[i])]
    /\ UNCHANGED << fs, quota, sock, life, outsideEngine >>

\* the test with <= for <
LastChunkOrFull(chunk_len) == chunk_len <= BLOCK_SIZE

\* the test that only stops on an empty chunk
LastChunkEmpty(chunk_len) == chunk_len = 0

\* a loop without the test of line 131
LastChunkNever(chunk_len) == FALSE

\* the test of line 131
LastChunk(chunk_len) == chunk_len < BLOCK_SIZE

\* the test without the block number
AckOkAnyBlock(ack_opcode, ack_block, block_num) == ack_opcode = OP_ACK

\* the test without the opcode
AckOkAnyOpcode(ack_opcode, ack_block, block_num) == ack_block = block_num

\* the test of line 124 on the unpacked reply
AckOk(ack_opcode, ack_block, block_num) ==
    ack_opcode = OP_ACK /\ ack_block = block_num

\* lines 116-133 when recvfrom(4) returns a datagram
Received(s, reply) ==
    LET ack == Take(reply, AckRecvSize)
        closed == TxClose(s)
    IN  IF Len(ack) < 4
        THEN LoopExit(Logged(closed, "short_ack"))
        ELSE IF ~AckOk(Unpack16(SubSeq(ack, 1, 2)), Unpack16(SubSeq(ack, 3, 4)),
                       s.block_num)
        THEN LoopExit(Logged(closed, "unexpected_ack"))
        ELSE IF LastChunk(s.chunk_len)
        THEN LoopExit(closed)
        ELSE [closed EXCEPT !.block_num = NextBlock(@), !.pc = "send"]

\* the datagrams a peer may answer the DATA packet of block b with
Replies(b) ==
    { AckPacket(b), AckPacket(b) \o << 7 >>,
      AckPacket((b + 1) % BlockModulus), AckPacket((b + 256) % BlockModulus),
      AckPacket(99),
      Pack16(OP_DATA) \o Pack16(b), Pack16(OP_ACK + 256) \o Pack16(b),
      << 0, OP_ACK, 0 >>, <<>> }

RecvReply(i, reply) ==
    /\ sessions[i].pc = "wait"
    /\ sessions' = [sessions EXCEPT ![i] = Received(Replied(sessions[i], reply), reply)]
    /\ UNCHANGED << fs, quota, sock, life, outsideEngine >>

\* what the wire observer notes when a datagram sent from address from
\* reaches the transfer socket
RepliedFrom(s, reply, from) ==
    [Replied(s, reply) EXCEPT !.nForeign = @ + (IF from = s.addr THEN 0 ELSE 1)]

\* the datagrams a stranger sends to the transfer socket's port
ForeignReplies(b) == { AckPacket(b), AckPacket(99) }

\* line 116: ack, _ = tx.recvfrom(4) on the unconnected transfer socket
\* returns a datagram of any sender, and the sender is dropped
RecvForeign(i, reply, from) ==
    /\ sessions[i].pc = "wait"
    /\ from # sessions[i].addr
    /\ sessions' = [sessions EXCEPT
                        ![i] = Received(RepliedFrom(sessions[i], reply, from), reply)]
    /\ UNCHANGED << fs, quota, sock, life, outsideEngine >>

\* a timeout that reports to the peer
TimedOutWithError(s) ==
    LoopExit(SendError(Logged(TxClose(s), "timeout"), 0, m_server))

\* a timeout that goes round the loop with the same block: the chunk
\* is read again and sent again
TimedOutRetransmits(s) ==
    [TxClose(s) EXCEPT !.pos = @ - s.chunk_len, !.pc = "send"]

\* lines 117-119: socket.timeout from recvfrom
TimedOut(s) == LoopExit(Logged(TxClose(s), "timeout"))

Timeout(i) ==
    /\ sessions[i].pc = "wait"
    /\ sessions' = [sessions EXCEPT ![i] = TimedOut(sessions[i])]
    /\ UNCHANGED << fs, quota, sock, life, outsideEngine >>

\* ------------------------------------------------------------ specification
Next ==
    \/ Start
    \/ \E data \in Datagrams, addr \in Peers : ServeLoop(data, addr)
    \/ \E i \in 1..Len(sessions) : Validate(i)
    \/ \E i \in 1..Len(sessions) : SendData(i)
    \/ \E i \in 1..Len(sessions) :
           \E reply \in Replies(sessions[i].lastBlock) : RecvReply(i, reply)
    \/ \E i \in 1..Len(sessions) : Timeout(i)

Spec == Init /\ [][Next]_vars

SpecBig == InitBig /\ [][Next]_vars

\* ------------------------------------------------- exceptions in a handler
\* line 106: open(candidate, "rb") raises (the file was removed or made
\* unreadable after is_file())
OpenFails(i) ==
    /\ sessions[i].pc = "validate"
    /\ Validated(sessions[i]).pc = "send"
    /\ sessions' = [sessions EXCEPT ![i] = Excepted(Logged(sessions[i], "rrq"))]
    /\ UNCHANGED << fs, quota, sock, life, outsideEngine >>

\* lines 109-113: the chunk is read, then socket.socket() or tx.sendto()
\* raises; finally closes tx, the with block closes f
SendFailed(s) ==
    LET chunk == Read(fs, s.candidate, s.pos, BLOCK_SIZE)
    IN  Failed([s EXCEPT !.chunk_len = Len(chunk), !.pos = @ + Len(chunk),
                         !.tx = "closed"])

\* a handler whose exception ends the accept loop as well
SendFailsStopsLoop(i) ==
    /\ sessions[i].pc = "send"
    /\ sessions' = [sessions EXCEPT ![i] = SendFailed(sessions[i])]
    /\ loops' = [k \in DOMAIN loops |-> [loops[k] EXCEPT !.pc = "exited"]]
    /\ UNCHANGED << fs, quota, sock, lsocks, sock_port, thread, stop_event, call,
                    outsideEngine >>

SendFails(i) ==
    /\ sessions[i].pc = "send"
    /\ sessions' = [sessions EXCEPT ![i] = SendFailed(sessions[i])]
    /\ UNCHANGED << fs, quota, sock, life, outsideEngine >>

\* line 117: tx.recvfrom raises an OSError that is not socket.timeout
RecvFails(i) ==
    /\ sessions[i].pc = "wait"
    /\ sessions' = [sessions EXCEPT ![i] = Failed(TxClose(sessions[i]))]
    /\ UNCHANGED << fs, quota, sock, life, outsideEngine >>

Faults ==
    \/ \E i \in 1..Len(sessions) : OpenFails(i)
    \/ \E i \in 1..Len(sessions) : SendFails(i)
    \/ \E i \in 1..Len(sessions) : RecvFails(i)
    \/ \E i \in 1..Len(sessions), from \in Strangers :
           \E reply \in ForeignReplies(sessions[i].lastBlock) :
               RecvForeign(i, reply, from)

NextFaults == Next \/ Faults

\* two requests to one listener, with handlers that may raise
InitPair ==
    /\ fs = SmallFs
    /\ quota = 2
    /\ Constructed
    /\ sessions = <<>>
    /\ script = <<>>
    /\ web = [svc \in WebServices |-> WebConstructed(TRUE, TRUE)]
    /\ boot = BootConstructed(TRUE)
    /\ cli = CliEntered(PlainArgs)

SpecFaults == InitPair /\ [][NextFaults]_vars

\* handler thread i is blocked in recvfrom on its transfer socket and the
\* 5 s timeout of line 112 expires
HandlerRecvReturns(i) == Len(sessions) >= i /\ Timeout(i)

\* handler thread i is in the calls of lines 109-113 and they return:
\* continuously enabled only while the thread stays before them
HandlerSendReturns(i) == Len(sessions) >= i /\ SendFails(i)

\* handler thread i, started at line 72, has run lines 76-106; Validate(i)
\* is enabled exactly where this is false, so that []<>HandlerRan(i) is
\* WF_vars(Validate(i)) written on states
HandlerRan(i) == Len(sessions) >= i => sessions[i].pc # "validate"

\* ------------------------------------------------------ start() and stop()
\* lines 35-36 of TftpServer.start: socket.socket() or bind() raises;
\* self._sock is not yet assigned
StartFails ==
    /\ Idle
    /\ sock = "none"
    /\ call' = [Enter("tftp", "start", FALSE, "idle") EXCEPT !.raised = TRUE]
    /\ UNCHANGED << fs, quota, sock, sessions, lsocks, sock_port, thread, loops,
                    stop_event, outsideEngine >>

\* a start() without the test of line 33: it binds again
StartAgainRebinds ==
    /\ Idle
    /\ sock # "none"
    /\ lsocks' = Append(lsocks, [state |-> "open", dummies |-> 0, fault |-> FALSE])
    /\ call' = Enter("tftp", "start", TRUE, "t38")
    /\ UNCHANGED << fs, quota, sock, sessions, sock_port, thread, loops, stop_event,
                    outsideEngine >>

\* lines 33-34: start() on a started listener returns at once
StartAgain ==
    /\ Idle
    /\ sock # "none"
    /\ call' = Enter("tftp", "start", TRUE, "idle")
    /\ UNCHANGED << fs, quota, sock, sessions, lsocks, sock_port, thread, loops,
                    stop_event, outsideEngine >>

\* line 46: self._stop_event.set()
StopSignal ==
    /\ Idle
    /\ stop_event' = TRUE
    /\ call' = Enter("tftp", "stop", sock # "none", "t47")
    /\ UNCHANGED << fs, quota, sock, sessions, lsocks, sock_port, thread, loops,
                    outsideEngine >>

\* lines 47-53: if self._sock, an empty datagram is sent from the listener
\* socket to its own port; a failure of sendto is swallowed
StopUnblock ==
    /\ call.at = "t47"
    /\ IF sock = "none"
       THEN /\ call' = At("t58")
            /\ UNCHANGED lsocks
       ELSE /\ call' = At("t54")
            /\ \E ok \in BOOLEAN :
                   lsocks' = IF ok /\ lsocks[Current].state = "open"
                             THEN [lsocks EXCEPT ![Current].dummies = @ + 1]
                             ELSE lsocks
    /\ UNCHANGED << fs, quota, sock, sessions, sock_port, thread, loops, stop_event,
                    outsideEngine >>

\* a stop() that unblocks the loop and clears the handle without close()
StopCloseSkipped ==
    /\ call.at = "t54"
    /\ call' = At("t57")
    /\ UNCHANGED << fs, quota, sock, sessions, lsocks, sock_port, thread, loops,
                    stop_event, outsideEngine >>

\* lines 54-56: self._sock.close(); a failure is logged and the socket
\* stays as it was, marked as one whose close() raised
StopClose ==
    /\ call.at = "t54"
    /\ \E ok \in BOOLEAN :
           lsocks' = IF ok
                     THEN [lsocks EXCEPT ![Current].state = "closed",
                                         ![Current].dummies = 0]
                     ELSE [lsocks EXCEPT ![Current].fault = TRUE]
    /\ call' = At("t57")
    /\ UNCHANGED << fs, quota, sock, sessions, sock_port, thread, loops, stop_event,
                    outsideEngine >>

\* line 57: self._sock = None
StopClear ==
    /\ call.at = "t57"
    /\ sock' = "none"
    /\ call' = At("t58")
    /\ UNCHANGED << fs, quota, sessions, lsocks, sock_port, thread, loops,
                    stop_event, outsideEngine >>

\* self._thread.is_alive()
Alive(t) == t # 0 /\ loops[t].pc # "exited"

\* line 58: if self._thread and self._thread.is_alive()
StopTest ==
    /\ call.at = "t58"
    /\ call' = At(IF Alive(thread) THEN "t59" ELSE "t61")
    /\ UNCHANGED << fs, quota, sock, sessions, lsocks, sock_port, thread, loops,
                    stop_event, outsideEngine >>

\* a stop() whose join also ends the handler threads
StopJoinCancelsHandlers ==
    /\ call.at = "t59"
    /\ loops' = [loops EXCEPT ![thread].joins = @ + 1]
    /\ thread' = 0
    /\ sessions' = [ i \in 1..Len(sessions) |-> Return(sessions[i]) ]
    /\ call' = At("t61")
    /\ UNCHANGED << fs, quota, sock, lsocks, sock_port, stop_event,
                    outsideEngine >>

\* lines 59-60: join(timeout=2.0) is called on the thread and returns,
\* the thread exited or not, and self._thread = None
StopJoin ==
    /\ call.at = "t59"
    /\ loops' = [loops EXCEPT ![thread].joins = @ + 1]
    /\ thread' = 0
    /\ call' = At("t61")
    /\ UNCHANGED << fs, quota, sock, sessions, lsocks, sock_port, stop_event,
                    outsideEngine >>

\* a stop() that returns without line 61
StopPortKept ==
    /\ call.at = "t61"
    /\ call' = At("idle")
    /\ UNCHANGED << fs, quota, sock, sessions, lsocks, sock_port, thread, loops,
                    stop_event, outsideEngine >>

\* line 61: self.sock_port = None
StopPort ==
    /\ call.at = "t61"
    /\ sock_port' = 0
    /\ call' = At("idle")
    /\ UNCHANGED << fs, quota, sock, sessions, lsocks, thread, loops, stop_event,
                    outsideEngine >>

\* TftpServer.stop
Stop ==
    StopSignal \/ StopUnblock \/ StopClose \/ StopClear \/ StopTest \/ StopJoin
    \/ StopPort

\* _serve_loop, lines 65-69: recvfrom times out after 1 s and the loop
\* test finds the event set
LoopTimeout(k) ==
    /\ loops[k].pc = "recv"
    /\ stop_event
    /\ loops' = [loops EXCEPT ![k].pc = "exited"]
    /\ UNCHANGED << fs, quota, sock, sessions, lsocks, sock_port, thread, stop_event,
                    call, outsideEngine >>

\* lines 70-71: recvfrom on the closed socket raises OSError, break
LoopClosed(k) ==
    /\ loops[k].pc = "recv"
    /\ lsocks[loops[k].sk].state = "closed"
    /\ loops' = [loops EXCEPT ![k].pc = "exited"]
    /\ UNCHANGED << fs, quota, sock, sessions, lsocks, sock_port, thread, stop_event,
                    call, outsideEngine >>

\* the address of the listener socket itself
Self == "self"

\* lines 65-72 on the empty datagram of stop(): it is received like any
\* other and handed to a handler thread
ServeDummy(k) ==
    /\ Receiving(k)
    /\ lsocks[loops[k].sk].dummies > 0
    /\ lsocks' = [lsocks EXCEPT ![loops[k].sk].dummies = @ - 1]
    /\ loops' = Iterated(k)
    /\ sessions' = Append(sessions, NewSession(<<>>, Self))
    /\ UNCHANGED << fs, quota, sock, sock_port, thread, stop_event, call,
                    outsideEngine >>

Lifecycle ==
    \/ StartFails
    \/ StartAgain
    \/ Stop
    \/ \E k \in 1..Len(loops) : LoopTimeout(k)
    \/ \E k \in 1..Len(loops) : LoopClosed(k)
    \/ \E k \in 1..Len(loops) : ServeDummy(k)

\* the requests and replies of the clients of a listener that is being
\* stopped and restarted: a file of two blocks and an absent name, each
\* DATA packet answered with its ACK or with the ACK of another block
LifeDatagrams == { Rrq(s_f513, s_octet), Rrq(n_missing, s_octet) }

LifeReplies(b) == { AckPacket(b), AckPacket(99) }

NextLife ==
    \/ Start
    \/ \E data \in LifeDatagrams, addr \in Peers : ServeLoop(data, addr)
    \/ \E i \in 1..Len(sessions) : Validate(i)
    \/ \E i \in 1..Len(sessions) : SendData(i)
    \/ \E i \in 1..Len(sessions) :
           \E reply \in LifeReplies(sessions[i].lastBlock) : RecvReply(i, reply)
    \/ \E i \in 1..Len(sessions) : Timeout(i)
    \/ Faults
    \/ Lifecycle

\* a listener that is started and stopped while one request
\* arrives
InitLife ==
    /\ fs = SmallFs
    /\ quota = 1
    /\ Constructed
    /\ sessions = <<>>
    /\ script = <<>>
    /\ web = [svc \in WebServices |-> WebConstructed(TRUE, TRUE)]
    /\ boot = BootConstructed(TRUE)
    /\ cli = CliEntered(PlainArgs)

SpecLife == InitLife /\ [][NextLife]_vars

\* one request to one listener, with a handler that may raise, whose
\* thread is scheduled again and again and whose recvfrom (5 s timeout,
\* line 114) returns, times out or raises
SpecHandlerFair ==
    /\ InitLife
    /\ [][NextFaults]_vars
    /\ []<>HandlerRan(1)
    /\ WF_vars(HandlerSendReturns(1))
    /\ WF_vars(HandlerRecvReturns(1))

\* the steps of a stop() call after its first
StopGoesOn ==
    StopUnblock \/ StopClose \/ StopClear \/ StopTest \/ StopJoin \/ StopPort

\* The same with the scheduling the code relies on: a stop() call that
\* has begun runs to its end (no step of it blocks for more than the two
\* seconds of join), and an accept thread is not blocked in recvfrom for
\* more than the second of line 64, so that it reaches its loop test or
\* the OSError of its closed socket.
SpecLifeFair ==
    /\ SpecLife
    /\ WF_vars(StopGoesOn)
    /\ WF_vars(\E k \in 1..Len(loops) : LoopTimeout(k))
    /\ WF_vars(\E k \in 1..Len(loops) : LoopClosed(k))

\* ------------------------------------------------ stop() and start() again
\* _serve_loop statement by statement, for a listener that is restarted
\* while a loop of an earlier start() may still be running.
\* line 67 on self._sock instead of the loop's own sock argument
LoopRecvOnHandle(k, data, addr) ==
    /\ loops[k].pc = "recv"
    /\ sock # "none"
    /\ lsocks[Current].state = "open"
    /\ quota > 0
    /\ quota' = quota - 1
    /\ loops' = [loops EXCEPT ![k].pc = "got", ![k].data = data, ![k].addr = addr]
    /\ UNCHANGED << fs, sock, sessions, lsocks, sock_port, thread, stop_event, call,
                    outsideEngine >>

\* line 67: data, addr = sock.recvfrom(2048) returns a client's datagram
LoopRecv(k, data, addr) ==
    /\ Receiving(k)
    /\ quota > 0
    /\ quota' = quota - 1
    /\ loops' = [loops EXCEPT ![k].pc = "got", ![k].data = data, ![k].addr = addr]
    /\ UNCHANGED << fs, sock, sessions, lsocks, sock_port, thread, stop_event, call,
                    outsideEngine >>

\* line 67 returns the empty datagram of stop()
LoopRecvDummy(k) ==
    /\ Receiving(k)
    /\ lsocks[loops[k].sk].dummies > 0
    /\ lsocks' = [lsocks EXCEPT ![loops[k].sk].dummies = @ - 1]
    /\ loops' = [loops EXCEPT ![k].pc = "got", ![k].data = <<>>, ![k].addr = Self]
    /\ UNCHANGED << fs, quota, sock, sessions, sock_port, thread, stop_event, call,
                    outsideEngine >>

\* line 72, then the loop test of line 65
LoopDispatch(k) ==
    /\ loops[k].pc = "got"
    /\ sessions' = Append(sessions, NewSession(loops[k].data, loops[k].addr))
    /\ loops' = [Iterated(k) EXCEPT ![k].data = <<>>, ![k].addr = "none"]
    /\ UNCHANGED << fs, quota, sock, lsocks, sock_port, thread, stop_event, call,
                    outsideEngine >>

RestartDatagrams == { Rrq(n_missing, s_octet) }

NextRestart ==
    \/ StartBindUpTo(MaxRebinds)
    \/ StartPort
    \/ StartThread
    \/ StartAgain
    \/ Stop
    \/ \E k \in 1..Len(loops) : LoopTimeout(k)
    \/ \E k \in 1..Len(loops) : LoopClosed(k)
    \/ \E k \in 1..Len(loops) : LoopRecvDummy(k)
    \/ \E k \in 1..Len(loops) : LoopDispatch(k)
    \/ \E k \in 1..Len(loops) :
           \E data \in RestartDatagrams, addr \in Peers : LoopRecv(k, data, addr)
    \/ \E i \in 1..Len(sessions) : Validate(i)

SpecRestart == InitLife /\ [][NextRestart]_vars

\* ------------------------------------ HttpFileServer, HttpsFileServer
\* the calling thread makes one call at a time, on any of the services
WebAt(svc, line) == call.svc = svc /\ call.at = line

\* a test that is content with one of the two files
CertsGivenEither(w) == w.certfile \/ w.keyfile

\* line 68 of HttpsFileServer.start, negated: both self.certfile and
\* self.keyfile are set
CertsGiven(w) == w.certfile /\ w.keyfile

\* start() on a started server returns at once (lines 25-26, 66-67)
WebStartAgain(svc) ==
    /\ Idle
    /\ web[svc].server # 0
    /\ call' = Enter(svc, "start", TRUE, "idle")
    /\ UNCHANGED << web, outsideWeb >>

\* lines 68-69: HttpsFileServer.start without certfile or keyfile raises
\* ValueError before a socket is made
WebStartNoCert(svc) ==
    /\ Idle
    /\ svc = "https"
    /\ web[svc].server = 0
    /\ ~CertsGiven(web[svc])
    /\ call' = [Enter(svc, "start", FALSE, "idle") EXCEPT !.raised = TRUE]
    /\ UNCHANGED << web, outsideWeb >>

\* line 28, line 71: ThreadingHTTPServer(...) raises (the bind fails)
WebStartFails(svc) ==
    /\ Idle
    /\ web[svc].server = 0
    /\ svc = "https" => CertsGiven(web[svc])
    /\ call' = [Enter(svc, "start", FALSE, "idle") EXCEPT !.raised = TRUE]
    /\ UNCHANGED << web, outsideWeb >>

\* lines 28-29 of HttpFileServer.start: the server is made, its socket
\* bound and listening, and self._server set; line 71 of
\* HttpsFileServer.start: the server is made, self._server not yet set
WebStartBind(svc) ==
    /\ Idle
    /\ web[svc].server = 0
    /\ svc = "https" => CertsGiven(web[svc])
    /\ Len(web[svc].socks) < MaxBinds
    /\ web' = [web EXCEPT ![svc].socks = Append(@, "open"),
                          ![svc].server = IF svc = "http" THEN Len(web[svc].socks) + 1
                                          ELSE 0]
    /\ call' = Enter(svc, "start", FALSE, IF svc = "http" THEN "port" ELSE "cert")
    /\ UNCHANGED outsideWeb

\* lines 73-82 of HttpsFileServer.start: load_cert_chain raises and the
\* server made at line 71 is dropped with its socket open, or the socket
\* is wrapped and self._server set
WebStartCert(svc) ==
    /\ WebAt(svc, "cert")
    /\ \E ok \in BOOLEAN :
           IF ok
           THEN /\ web' = [web EXCEPT ![svc].server = Len(web[svc].socks)]
                /\ call' = At("port")
           ELSE /\ call' = [At("idle") EXCEPT !.raised = TRUE]
                /\ UNCHANGED web
    /\ UNCHANGED outsideWeb

\* no statement of start() or stop() closes the socket of a server
\* object that was dropped (the local of line 71 after load_cert_chain
\* raised, the server whose server_close() raised): it stays open for as
\* long as the interpreter keeps the object, and is closed if and when the
\* object is finalized
WebFinalize(svc, k) ==
    /\ web[svc].socks[k] = "open"
    /\ web[svc].server # k
    /\ ~(call.svc = svc /\ call.op = "start" /\ call.at # "idle")
    /\ web' = [web EXCEPT ![svc].socks[k] = "closed"]
    /\ UNCHANGED << call, outsideWeb >>

\* line 30, line 83: self.sock_port = server.server_address[1]
WebStartPort(svc) ==
    /\ WebAt(svc, "port")
    /\ web' = [web EXCEPT ![svc].sock_port = PortOf(web[svc].server)]
    /\ call' = At("thread")
    /\ UNCHANGED outsideWeb

\* lines 32-34, 85-87: the serve_forever thread is started
WebStartThread(svc) ==
    /\ WebAt(svc, "thread")
    /\ web' = [web EXCEPT ![svc].thread = 1, ![svc].serving = "running",
                          ![svc].joins = 0]
    /\ call' = At("idle")
    /\ UNCHANGED outsideWeb

\* lines 37-41, 90-94: if self._server, shutdown() returns once
\* serve_forever has left its loop, or raises and is logged
WebStopShutdown(svc) ==
    /\ Idle
    /\ IF web[svc].server = 0
       THEN /\ call' = Enter(svc, "stop", FALSE, "join")
            /\ UNCHANGED web
       ELSE /\ call' = Enter(svc, "stop", TRUE, "close")
            /\ \E ok \in BOOLEAN :
                   web' = IF ok THEN [web EXCEPT ![svc].serving = "exited"] ELSE web
    /\ UNCHANGED outsideWeb

\* a stop() that lets the exception of server_close() out
WebStopClosePropagates(svc) ==
    /\ WebAt(svc, "close")
    /\ \E ok \in BOOLEAN :
           /\ web' = IF ok
                     THEN [web EXCEPT ![svc].socks[web[svc].server] = "closed"]
                     ELSE web
           /\ call' = IF ok THEN At("clear")
                      ELSE [call EXCEPT !.raised = TRUE, !.at = "idle"]
    /\ UNCHANGED outsideWeb

\* lines 42-45, 95-98: server_close() closes the socket, or raises and is
\* logged
WebStopClose(svc) ==
    /\ WebAt(svc, "close")
    /\ \E ok \in BOOLEAN :
           web' = IF ok THEN [web EXCEPT ![svc].socks[web[svc].server] = "closed"]
                  ELSE web
    /\ call' = At("clear")
    /\ UNCHANGED outsideWeb

\* line 46, line 99: self._server = None
WebStopClear(svc) ==
    /\ WebAt(svc, "clear")
    /\ web' = [web EXCEPT ![svc].server = 0]
    /\ call' = At("join")
    /\ UNCHANGED outsideWeb

\* lines 47-49, 100-102: join(timeout=2.0) is called on a live thread
\* and self._thread cleared; joins counts the calls of join on the
\* thread that start() made last
WebStopJoin(svc) ==
    /\ WebAt(svc, "join")
    /\ web' = IF web[svc].thread # 0 /\ web[svc].serving = "running"
              THEN [web EXCEPT ![svc].thread = 0, ![svc].joins = @ + 1]
              ELSE web
    /\ call' = At("unport")
    /\ UNCHANGED outsideWeb

\* line 50, line 103: self.sock_port = None
WebStopPort(svc) ==
    /\ WebAt(svc, "unport")
    /\ web' = [web EXCEPT ![svc].sock_port = 0]
    /\ call' = At("idle")
    /\ UNCHANGED outsideWeb

WebStart(svc) ==
    \/ WebStartAgain(svc)
    \/ WebStartNoCert(svc)
    \/ WebStartFails(svc)
    \/ WebStartBind(svc)
    \/ WebStartCert(svc)
    \/ WebStartPort(svc)
    \/ WebStartThread(svc)

WebStop(svc) ==
    \/ WebStopShutdown(svc)
    \/ WebStopClose(svc)
    \/ WebStopClear(svc)
    \/ WebStopJoin(svc)
    \/ WebStopPort(svc)

\* the three services, started and stopped by one thread in any order,
\* with no datagram read by the accept loop
NextServices ==
    \/ Start
    \/ StartFails
    \/ StartAgain
    \/ Stop
    \/ \E k \in 1..Len(loops) : LoopTimeout(k)
    \/ \E k \in 1..Len(loops) : LoopClosed(k)
    \/ \E svc \in WebServices : WebStart(svc)
    \/ \E svc \in WebServices : WebStop(svc)
    \/ \E svc \in WebServices : \E k \in 1..Len(web[svc].socks) : WebFinalize(svc, k)

InitServices ==
    /\ fs = SmallFs
    /\ quota = 0
    /\ Constructed
    /\ sessions = <<>>
    /\ script = <<>>
    /\ \E certfile, keyfile \in BOOLEAN :
           web = [svc \in WebServices |->
                     WebConstructed(svc = "http" \/ certfile, svc = "http" \/ keyfile)]
    /\ boot = BootConstructed(TRUE)
    /\ cli = CliEntered(PlainArgs)

SpecServices == InitServices /\ [][NextServices]_vars

\* ------------------------------------- scripts/serve_boot_artifacts.py
\* TFTPServer.serve_forever: one datagram received and handed to a new
\* thread; the socket is bound by the constructor and never closed while
\* the loop runs
ScriptServe(data, addr) ==
    /\ quota > 0
    /\ quota' = quota - 1
    /\ script' = Append(script, NewSession(data, addr))
    /\ UNCHANGED << fs, outsideScript >>

\* TFTPServer.send_error: self.sock.sendto, with no test of the socket
ScriptSendError(s, code, message) ==
    [s EXCEPT !.errs = Append(@, [ via |-> "listener", to |-> s.addr,
                                   pkt |-> ErrorPacket(code, message) ])]

\* the except clause of handle_request
ScriptFailed(s) ==
    Return(ScriptSendError(Logged([s EXCEPT !.f = IF @ = "open" THEN "closed" ELSE @],
                                  "exception"), 0, m_server))

\* bytes.decode("utf-8") succeeds: no byte is outside ASCII (the bytes
\* above 127 that the requests here carry are lone, hence invalid)
Utf8Ok(bs) == \A k \in 1..Len(bs) : bs[k] < 128

\* os.path.normpath(os.path.join(self.directory, filename.lstrip("/")))
SafePath(filename) == Resolve(root_dir, PathParts(LStrip(filename)))

\* the path checks of handle_request, then open(safe_path, "rb")
ScriptOpenTransfer(s, filename) ==
    LET safe_path == SafePath(filename)
    IN  IF ~StartsWith(PathStr(safe_path), PathStr(root_dir))
        THEN Return(ScriptSendError(s, 2, m_access))
        ELSE IF ~IsFile(fs, safe_path)
        THEN Return(ScriptSendError(s, 1, m_notfound))
        ELSE [s EXCEPT !.candidate = safe_path, !.f = "open", !.pos = 0,
                       !.block_num = 1, !.pc = "send"]

\* handle_request up to the block loop: struct.unpack of fewer than 2
\* bytes and a failed decode raise into the except clause; a request with
\* no second segment gets the mode "octet"
ScriptValidated(s) ==
    IF Len(Take(s.data, 2)) # 2
    THEN ScriptFailed(s)
    ELSE IF Unpack16(Take(s.data, 2)) # OP_RRQ
    THEN Return(ScriptSendError(s, 4, m_illegal))
    ELSE LET parts == Split(Drop(s.data, 2), NUL)
         IN  IF ~Utf8Ok(parts[1]) \/ (Len(parts) > 1 /\ ~Utf8Ok(parts[2]))
             THEN ScriptFailed(s)
             ELSE LET filename == parts[1]
                      mode == IF Len(parts) > 1 THEN parts[2] ELSE s_octet
                  IN  IF ~ModeOk(mode)
                      THEN Return(ScriptSendError(Logged(s, "rrq"), 0, m_mode))
                      ELSE ScriptOpenTransfer(Logged(s, "rrq"), filename)

ScriptValidate(i) ==
    /\ script[i].pc = "validate"
    /\ script' = [script EXCEPT ![i] = ScriptValidated(script[i])]
    /\ UNCHANGED << fs, quota, outsideScript >>

\* the block loop of handle_request is the loop of _handle_request
ScriptSendData(i) ==
    /\ script[i].pc = "send"
    /\ script' = [script EXCEPT ![i] = Sent(script[i])]
    /\ UNCHANGED << fs, quota, outsideScript >>

ScriptRecvReply(i, reply) ==
    /\ script[i].pc = "wait"
    /\ script' = [script EXCEPT ![i] = Received(Replied(script[i], reply), reply)]
    /\ UNCHANGED << fs, quota, outsideScript >>

ScriptTimeout(i) ==
    /\ script[i].pc = "wait"
    /\ script' = [script EXCEPT ![i] = TimedOut(script[i])]
    /\ UNCHANGED << fs, quota, outsideScript >>

NextScript ==
    \/ \E data \in Datagrams, addr \in Peers : ScriptServe(data, addr)
    \/ \E i \in 1..Len(script) : ScriptValidate(i)
    \/ \E i \in 1..Len(script) : ScriptSendData(i)
    \/ \E i \in 1..Len(script) :
           \E reply \in Replies(script[i].lastBlock) : ScriptRecvReply(i, reply)
    \/ \E i \in 1..Len(script) : ScriptTimeout(i)

\* the script's server, constructed over the small files
SpecScript == Init /\ [][NextScript]_vars

\* ------------------------------------------------------- reading the wire
Sessions == 1..Len(sessions)

\* fields of an ERROR packet, decoded from its bytes
ErrOpcode(pkt) == pkt[1] * 256 + pkt[2]

ErrCode(pkt) == pkt[3] * 256 + pkt[4]

ErrMessage(pkt) == SubSeq(pkt, 5, Len(pkt) - 1)

\* the session got exactly one ERROR packet, with this code, from the
\* listener socket, addressed to the peer that sent the datagram
OneError(s, code) ==
    /\ Len(s.errs) = 1
    /\ s.errs[1].via = "listener"
    /\ s.errs[1].to = s.addr
    /\ Len(s.errs[1].pkt) >= 5
    /\ ErrOpcode(s.errs[1].pkt) = OP_ERROR
    /\ ErrCode(s.errs[1].pkt) = code
    /\ s.errs[1].pkt[Len(s.errs[1].pkt)] = NUL

Warned(s) ==
    \E k \in 1..Len(s.log) : s.log[k] \in { "timeout", "short_ack", "unexpected_ack" }

HasLog(s, rec) == \E k \in 1..Len(s.log) : s.log[k] = rec

\* the session left the block loop after the ACK of a short block
Completed(s) ==
    /\ s.pc = "done"
    /\ HasLog(s, "completed")
    /\ ~Warned(s)
    /\ ~HasLog(s, "exception")

\* every DATA packet sent so far was answered, each with its matching ACK
AllAcked(s) == s.nAck = s.nData /\ s.nReply = s.nData

\* every reply so far was the ACK of the outstanding block and no wait has
\* timed out
PeerFaultless(s) == s.nReply = s.nAck /\ ~HasLog(s, "timeout")

\* the file a request name designates, for the names that designate one
\* inside the root
Designated(name) ==
    IF name \in PlainNames THEN Append(root_dir, name)
    ELSE Append(root_dir, s_f1)

InsideNames == PlainNames \cup { n_abs, n_dot, n_back }

OctetModes == { s_octet, s_binary, s_OCTET, s_Binary }

\* ------------------------------------------------------------------ claims

\* C1: a finished session whose RRQ (mode octet or binary) names an existing
\* regular file under the root, and whose every DATA packet was answered
\* with the matching ACK, has completed, and the DATA payloads concatenated
\* in the order sent are exactly the bytes of that file.
C1_TransferDeliversFile ==
    \A i \in Sessions : \A name \in InsideNames, mode \in OctetModes :
        LET s == sessions[i]
        IN  ( /\ s.data = Rrq(name, mode)
              /\ IsFile(fs, Designated(name))
              /\ s.pc = "done"
              /\ AllAcked(s) )
            => /\ Completed(s)
               /\ s.nData >= 1
               /\ s.candidate = Designated(name)
               /\ s.intact
               /\ s.delivered = FileOf(fs, Designated(name)).size

C1_Witness ==
    \E i \in Sessions :
        /\ sessions[i].data = Rrq(s_f1024, s_octet)
        /\ Completed(sessions[i])
        /\ sessions[i].nData = 3
        /\ sessions[i].nAck = 3
        /\ sessions[i].delivered = 1024

\* the path is the root or below it, compared component by component
UnderRoot(p) ==
    /\ Len(p) >= Len(root_dir)
    /\ SubSeq(p, 1, Len(root_dir)) = root_dir

\* C2: a request (mode octet or binary) whose joined and normalized path
\* lies outside the root directory is answered with one ERROR of code 2; no
\* file is opened and no DATA packet is sent for it.
C2_OutsideRejected ==
    \A i \in Sessions : \A name \in Names, mode \in OctetModes :
        LET s == sessions[i]
        IN  ( /\ s.data = Rrq(name, mode)
              /\ ~UnderRoot(Candidate(name))
              /\ s.pc # "validate" )
            => /\ s.pc = "done"
               /\ OneError(s, 2)
               /\ s.f = "none"
               /\ s.nData = 0

\* C3: a session never has more than one DATA packet without its ACK, and
\* a DATA packet after the first is sent only when every earlier DATA
\* packet has been answered with its matching ACK; it carries the next
\* block number.
C3_StrictlySequential ==
    /\ [](\A i \in Sessions : sessions[i].nData - sessions[i].nAck \in { 0, 1 })
    /\ [][\A i \in Sessions :
            (sessions'[i].nData # sessions[i].nData /\ sessions[i].nData >= 1)
            => /\ sessions[i].nAck = sessions[i].nData
               /\ sessions'[i].nData = sessions[i].nData + 1
               /\ sessions'[i].lastBlock = (sessions[i].lastBlock + 1) % BlockModulus]_vars

C3_Witness ==
    \E i \in Sessions :
        /\ sessions[i].pc = "wait"
        /\ sessions[i].nData = 2
        /\ sessions[i].lastBlock = 2
        /\ sessions[i].nAck = 1

\* a wait that ends without a reply having arrived
TimeoutStep(i) ==
    /\ sessions[i].pc = "wait"
    /\ sessions'[i].pc # "wait"
    /\ sessions'[i].nReply = sessions[i].nReply

\* C4: when a wait for a reply times out, and ever after, the session sends
\* no DATA packet and no ERROR packet, its transfer socket is closed and the
\* handler has returned.
C4_TimeoutAbortsSilently ==
    [][\A i \in Sessions :
        (TimeoutStep(i) \/ HasLog(sessions[i], "timeout"))
        => /\ HasLog(sessions'[i], "timeout")
           /\ sessions'[i].nData = sessions[i].nData
           /\ sessions'[i].errs = sessions[i].errs
           /\ sessions'[i].errs = <<>>
           /\ sessions'[i].tx = "closed"
           /\ sessions'[i].pc = "done"]_vars

C4_Witness ==
    \E i \in Sessions :
        /\ HasLog(sessions[i], "timeout")
        /\ sessions[i].pc = "done"
        /\ sessions[i].nData = 2
        /\ sessions[i].nAck = 1
        /\ sessions[i].nReply = 1
        /\ sessions[i].tx = "closed"

\* a wait that ends with a reply that is not the ACK of the outstanding block
BadReplyStep(i) ==
    /\ sessions[i].pc = "wait"
    /\ sessions'[i].nReply = sessions[i].nReply + 1
    /\ sessions'[i].nAck = sessions[i].nAck

\* the handler returned with its last DATA packet unanswered
Aborted(s) == s.pc = "done" /\ s.nData > s.nAck

\* C5: a reply that is not the matching ACK (short, other opcode, other
\* block number) ends the session: with it and ever after no DATA and no
\* ERROR packet is sent and the block number stays as it was.
C5_BadReplyAborts ==
    [][\A i \in Sessions :
        (BadReplyStep(i) \/ Aborted(sessions[i]))
        => /\ sessions'[i].pc = "done"
           /\ sessions'[i].nData = sessions[i].nData
           /\ sessions'[i].errs = sessions[i].errs
           /\ sessions'[i].errs = <<>>
           /\ sessions'[i].block_num = sessions[i].block_num
           /\ sessions'[i].tx = "closed"]_vars

C5_Witness ==
    \E i \in Sessions :
        /\ HasLog(sessions[i], "unexpected_ack")
        /\ sessions[i].pc = "done"
        /\ sessions[i].nData = 1
        /\ sessions[i].block_num = 1
        /\ sessions[i].nReply = 1
        /\ sessions[i].nAck = 0

\* the request of session s names the existing regular file p under the root
Requests(s, p) ==
    \E name \in InsideNames, mode \in OctetModes :
        /\ s.data = Rrq(name, mode)
        /\ p = Designated(name)
        /\ IsFile(fs, p)

FilesUnderRoot == { e.path : e \in { x \in fs : x.type = "file" /\ UnderRoot(x.path) } }

\* C6: for a file whose size is a multiple of 512 (the empty file included)
\* at most one empty DATA packet is ever sent and nothing is sent after it;
\* while it is unanswered the session waits for the reply on its open
\* socket; and when the peer has ACKed every block the finished session
\* has sent exactly one empty DATA packet, as its last, and got its ACK.
C6_OneEmptyFinalBlock ==
    \A i \in Sessions : \A p \in FilesUnderRoot :
        LET s == sessions[i]
            size == FileOf(fs, p).size
        IN  (Requests(s, p) /\ size % BLOCK_SIZE = 0)
            => /\ s.nZero <= 1
               /\ s.nZero = 1 => (s.lastLen = 0 /\ s.nData = size \div BLOCK_SIZE + 1)
               /\ (s.nZero = 1 /\ s.nAck < s.nData /\ PeerFaultless(s))
                      => (s.pc = "wait" /\ s.tx = "open")
               /\ (s.pc = "done" /\ PeerFaultless(s))
                      => (s.nZero = 1 /\ s.lastLen = 0 /\ AllAcked(s) /\ Completed(s))

C6_Witness ==
    \E i \in Sessions :
        /\ sessions[i].data = Rrq(s_f512, s_octet)
        /\ sessions[i].pc = "done"
        /\ sessions[i].nData = 2
        /\ sessions[i].nZero = 1
        /\ sessions[i].lastLen = 0
        /\ sessions[i].nAck = 2

\* C7: after a DATA packet with fewer than 512 payload bytes the session
\* sends no DATA packet again; and a finished transfer of a file of S bytes
\* whose every block was ACKed has sent floor(S/512)+1 DATA packets, the
\* last with S mod 512 bytes and every other with 512.
C7_ShortBlockIsLast ==
    /\ [][\A i \in Sessions :
            sessions[i].nShort >= 1 => sessions'[i].nData = sessions[i].nData]_vars
    /\ [](\A i \in Sessions : \A p \in FilesUnderRoot :
            LET s == sessions[i]
                size == FileOf(fs, p).size
            IN  (Requests(s, p) /\ s.pc = "done" /\ AllAcked(s))
                => /\ s.nData = size \div BLOCK_SIZE + 1
                   /\ s.nShort = 1
                   /\ s.lastLen = size % BLOCK_SIZE
                   /\ s.delivered = (s.nData - 1) * BLOCK_SIZE + s.lastLen)

C7_Witness ==
    \E i \in Sessions :
        /\ sessions[i].data = Rrq(s_f800, s_octet)
        /\ sessions[i].pc = "done"
        /\ sessions[i].nData = 2
        /\ sessions[i].lastBlock = 2
        /\ sessions[i].lastLen = 288
        /\ sessions[i].nAck = 2

\* C8: the k-th DATA packet of a session carries block number k mod 65536:
\* 1 first, one more per ACKed block, 0 after 65535 and then 1, 2, ...; the
\* handler's block number is always in 0..65535.
C8_BlockNumberWraps ==
    \A i \in Sessions :
        LET s == sessions[i]
        IN  /\ s.block_num \in 0..65535
            /\ s.lastBlock \in 0..65535
            /\ s.nData >= 1 => s.lastBlock = s.nData % 65536
            /\ s.pc \in { "send", "wait" } =>
                   s.block_num = (IF s.pc = "send" THEN s.nData + 1 ELSE s.nData) % 65536
            /\ s.nAck \in { s.nData, s.nData - 1 }

C8_Witness ==
    \E i \in Sessions :
        /\ sessions[i].nData = 65538
        /\ sessions[i].lastBlock = 2
        /\ sessions[i].nAck = 65538
        /\ Completed(sessions[i])

\* C9: a datagram of at least 2 bytes whose opcode is not RRQ is answered
\* with exactly one ERROR packet of code 4 from the listener socket; no
\* file is opened and no DATA packet is sent.
C9_NonRrqIllegal ==
    \A i \in Sessions :
        LET s == sessions[i]
        IN  ( /\ Len(s.data) >= 2
              /\ s.data[1] * 256 + s.data[2] # OP_RRQ
              /\ s.pc # "validate" )
            => /\ s.pc = "done"
               /\ OneError(s, 4)
               /\ s.f = "none"
               /\ s.tx = "none"
               /\ s.nData = 0

C9_Witness ==
    \E i \in Sessions :
        /\ sessions[i].data = Pack16(2) \o s_f1 \o << NUL >> \o s_octet \o << NUL >>
        /\ sessions[i].pc = "done"
        /\ OneError(sessions[i], 4)

\* two texts that differ at most in the case of their letters
SameIgnoringCase(a, b) ==
    /\ Len(a) = Len(b)
    /\ \A k \in 1..Len(a) :
           \/ a[k] = b[k]
           \/ a[k] \in 65..90 /\ b[k] = a[k] + 32
           \/ a[k] \in 97..122 /\ b[k] = a[k] - 32

IsOctetOrBinary(mode) ==
    SameIgnoringCase(mode, s_octet) \/ SameIgnoringCase(mode, s_binary)

ModeError(s) ==
    \E k \in 1..Len(s.errs) : ErrMessage(s.errs[k].pkt) = m_mode

\* C10: an RRQ whose mode is neither "octet" nor "binary" in any casing is
\* answered with one ERROR of code 0 and no DATA packet; an RRQ whose mode
\* is a casing of "octet" or "binary" is not refused for its mode.
C10_ModeCheck ==
    \A i \in Sessions : \A name \in Names, mode \in OctetModes \cup BadModes :
        LET s == sessions[i]
        IN  (s.data = Rrq(name, mode) /\ s.pc # "validate")
            => IF IsOctetOrBinary(mode)
               THEN ~ModeError(s)
               ELSE /\ s.pc = "done"
                    /\ OneError(s, 0)
                    /\ ModeError(s)
                    /\ s.f = "none"
                    /\ s.nData = 0

C10_Witness ==
    \E i \in Sessions :
        /\ sessions[i].data = Rrq(s_f1, s_netascii)
        /\ sessions[i].pc = "done"
        /\ OneError(sessions[i], 0)
        /\ sessions[i].nData = 0

\* C11: a request (mode octet or binary) whose resolved path is the root or
\* below it and is not an existing regular file (an absent name, or a
\* directory) is answered with exactly one ERROR of code 1 whose message
\* contains "not found"; no file is opened and no DATA packet is sent.
C11_MissingIsNotFound ==
    \A i \in Sessions : \A name \in Names, mode \in OctetModes :
        LET s == sessions[i]
        IN  ( /\ s.data = Rrq(name, mode)
              /\ UnderRoot(Candidate(name))
              /\ Candidate(name) \notin FilesUnderRoot
              /\ s.pc # "validate" )
            => /\ s.pc = "done"
               /\ OneError(s, 1)
               /\ Contains(ErrMessage(s.errs[1].pkt), s_not_found)
               /\ s.f = "none"
               /\ s.tx = "none"
               /\ s.nData = 0

C11_Witness ==
    /\ \E e \in fs : e.path = Candidate(s_d) /\ e.type = "dir"
    /\ \E i \in Sessions :
           /\ sessions[i].data = Rrq(s_d, s_octet)
           /\ sessions[i].pc = "done"
           /\ OneError(sessions[i], 1)
           /\ sessions[i].nData = 0

\* a datagram of fewer than 2 bytes
TooShort(data) == Len(data) < 2

\* an RRQ whose bytes after the opcode hold no NUL: one segment
Unterminated(data) ==
    /\ Len(data) >= 2
    /\ data[1] * 256 + data[2] = OP_RRQ
    /\ \A k \in 3..Len(data) : data[k] # NUL

\* the handler of s answered with one ERROR of code 0 and started nothing
RejectedUnstarted(s) ==
    /\ s.pc = "done"
    /\ OneError(s, 0)
    /\ s.f = "none"
    /\ s.tx = "none"
    /\ s.nData = 0

\* the part of C12 that is about bootServer.TftpServer
EngineRejectsMalformed ==
    \A i \in Sessions :
        LET s == sessions[i]
        IN  ((TooShort(s.data) \/ Unterminated(s.data)) /\ s.pc # "validate")
            => RejectedUnstarted(s)

\* C12: a datagram of fewer than 2 bytes, and an RRQ with no NUL after the
\* opcode, is answered with one ERROR of code 0 and starts no transfer (no
\* file opened, no DATA packet sent), by TftpServer._handle_request and by
\* the script's TFTPServer.handle_request.
C12_MalformedRejected ==
    /\ EngineRejectsMalformed
    /\ \A i \in 1..Len(script) :
           LET s == script[i]
           IN  ((TooShort(s.data) \/ Unterminated(s.data)) /\ s.pc # "validate")
               => RejectedUnstarted(s)

\* the unterminated request for f1 has been served by the script
C12_ScriptServesUnterminated ==
    \E i \in 1..Len(script) :
        /\ script[i].data = Pack16(OP_RRQ) \o s_f1
        /\ script[i].pc = "done"
        /\ script[i].errs = <<>>
        /\ script[i].nData = 1
        /\ script[i].delivered = 1
        /\ script[i].intact

\* the engine has rejected the unterminated request for f1
C12_EngineWitness ==
    \E i \in Sessions :
        /\ sessions[i].data = Pack16(OP_RRQ) \o s_f1
        /\ RejectedUnstarted(sessions[i])
        /\ ErrMessage(sessions[i].errs[1].pkt) = m_malformed

\* a step of the thread that calls start() and stop() on the TftpServer
CallerStep == call' # call /\ call'.svc = "tftp" /\ (Idle \/ call.svc = "tftp")

\* C13: a start() on a started listener returns without raising, having
\* bound no socket, started no accept thread and left self._sock,
\* self._thread and self.sock_port (which is set) as they were; every step
\* of a stop() on a listener that is not started (never started, start
\* failed, or already stopped) leaves the sockets, the threads, the
\* handlers, self._sock, self._thread and self.sock_port as they were and
\* raises nothing, and the stop event changes only where no accept loop
\* exists to read it.
C13_StartStopIdempotent ==
    [][ /\ ( CallerStep /\ call'.op = "start" /\ call'.started )
           => /\ call'.at = "idle"
              /\ ~call'.raised
              /\ sock_port # 0
              /\ UNCHANGED << sock, sock_port, thread, lsocks, loops, stop_event,
                              sessions >>
        /\ ( CallerStep /\ call'.op = "stop" /\ ~call'.started )
           => /\ ~call'.raised
              /\ sock = "none"
              /\ sock_port = 0
              /\ UNCHANGED << sock, sock_port, thread, lsocks, loops, sessions >>
              /\ (stop_event' = stop_event \/ loops = <<>>)
      ]_vars

\* a second stop() has returned on a listener that was started and stopped
C13_Witness ==
    /\ call = Enter("tftp", "stop", FALSE, "idle")
    /\ Len(lsocks) = 1
    /\ Len(loops) = 1
    /\ sock = "none"
    /\ sock_port = 0
    /\ stop_event

\* a second start() has returned on a listener that is started
C13_StartAgainWitness ==
    /\ call = Enter("tftp", "start", TRUE, "idle")
    /\ Len(lsocks) = 1
    /\ Len(loops) = 1
    /\ sock_port = PortOf(1)

\* the service is running: its socket or server handle is set
Running(svc) == IF svc = "tftp" THEN sock # "none" ELSE web[svc].server # 0

\* the sock_port of the service, 0 for None
SockPort(svc) == IF svc = "tftp" THEN sock_port ELSE web[svc].sock_port

Services == { "tftp" } \cup WebServices

\* a start() or stop() call on the service is under way
InCall(svc) == call.svc = svc /\ ~Idle

\* C14 as stated: in every reachable state, the states inside a start()
\* or stop() call included, sock_port is set exactly when the service's
\* handle is set.
C14_PortIffRunning ==
    \A svc \in Services : SockPort(svc) # 0 <=> Running(svc)

\* C14 amended: whenever no start() or stop() call on the service is under
\* way, sock_port is set exactly when the handle is set, also after a
\* start() that raised and a stop() whose shutdown or close failed; inside
\* a call the two can differ only as handle set without port (start) or
\* port set without handle (stop).
C14_PortIffRunningBetweenCalls ==
    \A svc \in Services :
        /\ ~InCall(svc) => (SockPort(svc) # 0 <=> Running(svc))
        /\ (InCall(svc) /\ call.op = "start") => (SockPort(svc) # 0 => Running(svc))
        /\ (InCall(svc) /\ call.op = "stop") => (Running(svc) => SockPort(svc) # 0)

\* the TftpServer was stopped with a close that failed, the HTTP server is
\* started, and the last HTTPS start raised after its socket was bound
C14_Witness ==
    /\ Idle
    /\ sock = "none" /\ sock_port = 0
    /\ Len(lsocks) = 1 /\ lsocks[1].state = "open"
    /\ web["http"].server # 0 /\ web["http"].sock_port = PortOf(1)
    /\ call = [Enter("https", "start", FALSE, "idle") EXCEPT !.raised = TRUE]
    /\ web["https"].socks = << "open" >> /\ web["https"].sock_port = 0

\* the handler of s ended on a failure path: an ERROR reply, an abort on a
\* timeout or a bad reply, or an exception
FailedSession(s) ==
    s.pc = "done" /\ (s.errs # <<>> \/ Warned(s) \/ HasLog(s, "exception"))

\* C15: a step of one handler, its failure steps included, changes no
\* other handler's record and nothing of the listener (socket, port,
\* accept thread, stop event, datagrams still to come); and while the
\* listener is not stopped its accept loop stays blocked in recvfrom on
\* the open socket whatever the handlers did, so that the next datagram is
\* dispatched.
C15_FailureIsolated ==
    /\ [][ \A i \in 1..Len(sessions) :
               sessions'[i] # sessions[i]
               => /\ \A j \in 1..Len(sessions') : j # i => sessions'[j] = sessions[j]
                  /\ UNCHANGED << sock, lsocks, sock_port, thread, loops, stop_event,
                                  quota >>
         ]_vars
    /\ []( sessions # <<>> => \A k \in 1..Len(loops) : Receiving(k) )

\* the first handler raised and the second served its file to the end
C15_Witness ==
    /\ Len(sessions) = 2
    /\ HasLog(sessions[1], "exception")
    /\ FailedSession(sessions[1])
    /\ sessions[2].data = Rrq(s_f513, s_octet)
    /\ Completed(sessions[2])
    /\ sessions[2].delivered = 513
    /\ \A k \in 1..Len(loops) : Receiving(k)

\* the handler of s went through its except clause
Raised(s) == HasLog(s, "exception")

\* the one ERROR the session got is code 0 "Server error"
ServerError(s) == OneError(s, 0) /\ ErrMessage(s.errs[1].pkt) = m_server

C16_SilentAfterStop ==
    \E i \in Sessions :
        /\ Raised(sessions[i])
        /\ sessions[i].pc = "done"
        /\ sessions[i].nData = 1
        /\ sessions[i].errs = <<>>
        /\ sock = "none"

\* the handler of s is inside its block loop
InBlockLoop(s) == s.pc \in { "send", "wait" }

\* C17: no step of stop() changes a handler's record: a handler inside
\* its block loop when stop() runs is still inside it, with the same
\* counters, when stop() returns, and goes on from there.
C17_StopLeavesSessions ==
    [][ (CallerStep /\ call'.op = "stop") => sessions' = sessions ]_vars

\* stop() has returned on the started listener while a handler that has
\* sent block 1 and got its ACK is about to send block 2
C17_Witness ==
    /\ call = Enter("tftp", "stop", TRUE, "idle")
    /\ sock = "none"
    /\ \E i \in Sessions :
           /\ sessions[i].data = Rrq(s_f513, s_octet)
           /\ InBlockLoop(sessions[i])
           /\ sessions[i].nData = 1
           /\ sessions[i].nAck = 1

\* the transfer has completed on a listener that stop() has shut down
C17_CompletedAfterStop ==
    /\ call = Enter("tftp", "stop", TRUE, "idle")
    /\ sock = "none"
    /\ \E i \in Sessions :
           /\ sessions[i].data = Rrq(s_f513, s_octet)
           /\ Completed(sessions[i])
           /\ sessions[i].delivered = 513

\* the handler of s is blocked in recvfrom for the ACK of its last block
Waiting(s) == s.pc = "wait"

\* the step hands a received datagram to a new handler
Dispatched == Len(sessions') = Len(sessions) + 1

\* C18: while a handler waits for an ACK the accept loop is blocked in its
\* own recvfrom on the open listener socket, ready for the next datagram;
\* and a step that dispatches a datagram leaves the handlers already
\* running as they are and the loop back in recvfrom.
C18_WaitingNeverBlocksAccept ==
    /\ []( (\E i \in Sessions : Waiting(sessions[i]))
               => \E k \in 1..Len(loops) : Receiving(k) )
    /\ [][ Dispatched
             => /\ \A i \in Sessions : sessions'[i] = sessions[i]
                /\ \E k \in 1..Len(loops) : loops'[k].pc = "recv" ]_vars

\* the first handler still waits for the ACK of its block 1, no reply
\* received, while the handler of a later request has sent its first DATA
C18_Witness ==
    /\ Len(sessions) = 2
    /\ Waiting(sessions[1])
    /\ sessions[1].nData = 1
    /\ sessions[1].nReply = 0
    /\ sessions[2].nData = 1
    /\ Waiting(sessions[2])

\* ------------------------------------------- server.py: class bootServer
BootAt(line) == call.svc = "boot" /\ call.at = line

\* what the steps of bootServer leave alone
outsideBoot == << fs, quota, sock, sessions, lsocks, sock_port, thread, loops,
                  stop_event, script, web, cli >>

\* a ThreadingHTTPServer just bound, with its serve_forever thread
HttpBound == [sock |-> "open", shut |-> FALSE, alive |-> TRUE, fault |-> FALSE]

\* a UDP socket just bound, with its _tftp_serve_loop thread
TftpBound == [sock |-> "open", alive |-> TRUE, fault |-> FALSE]

\* the manager holds an HTTP server: start() has run and stop() has not
BootStarted == boot.http_server # 0

\* line 98 of bootServer.start: self._stop_event.clear(); there is no test
\* of self._http_server before the servers are started
BootStartClear ==
    /\ Idle
    /\ boot.built
    /\ Len(boot.https) < MaxStarts
    /\ boot' = [boot EXCEPT !.stop_event = FALSE]
    /\ call' = Enter("boot", "start", BootStarted, "b99")
    /\ UNCHANGED outsideBoot

\* line 99, _start_http (lines 137-147): a new server is bound, the handle
\* and the port are assigned, the thread is started
BootStartHttp ==
    /\ BootAt("b99")
    /\ LET k == Len(boot.https) + 1
       IN  boot' = [boot EXCEPT !.https = Append(@, HttpBound),
                                !.http_server = k,
                                !.http_sock_port = PortOf(k),
                                !.http_thread = k]
    /\ call' = At("b100")
    /\ UNCHANGED outsideBoot

\* line 140: ThreadingHTTPServer(...) raises (the port is taken); start()
\* propagates it
BootStartHttpFails ==
    /\ BootAt("b99")
    /\ call' = [At("idle") EXCEPT !.raised = TRUE]
    /\ UNCHANGED << boot, outsideBoot >>

\* lines 100-101, _start_tftp (lines 150-160), and the return of start()
BootStartTftp ==
    /\ BootAt("b100")
    /\ LET k == Len(boot.tftps) + 1
       IN  boot' = IF boot.enable_tftp
                   THEN [boot EXCEPT !.tftps = Append(@, TftpBound),
                                     !.tftp_sock = k,
                                     !.tftp_sock_port = PortOf(k),
                                     !.tftp_thread = k]
                   ELSE boot
    /\ call' = At("idle")
    /\ UNCHANGED outsideBoot

\* lines 152-153: socket.socket() or bind() raises; start() propagates it
\* with the HTTP server of line 99 running
BootStartTftpFails ==
    /\ BootAt("b100")
    /\ boot.enable_tftp
    /\ call' = [At("idle") EXCEPT !.raised = TRUE]
    /\ UNCHANGED << boot, outsideBoot >>

BootStart ==
    \/ BootStartClear
    \/ BootStartHttp
    \/ BootStartHttpFails
    \/ BootStartTftp
    \/ BootStartTftpFails

\* line 105 of bootServer.stop: self._stop_event.set()
BootStopSignal ==
    /\ Idle
    /\ boot.built
    /\ boot' = [boot EXCEPT !.stop_event = TRUE]
    /\ call' = Enter("boot", "stop", BootStarted, "b107")
    /\ UNCHANGED outsideBoot

\* a stop() without the try of lines 108-111: a failed shutdown() leaves it
BootStopShutdownPropagates ==
    /\ BootAt("b107")
    /\ \E fails \in BOOLEAN :
           IF boot.http_server = 0
           THEN boot' = boot /\ call' = At("b117")
           ELSE IF fails
           THEN boot' = boot /\ call' = [At("idle") EXCEPT !.raised = TRUE]
           ELSE /\ boot' = [boot EXCEPT !.https[boot.http_server].shut = TRUE]
                /\ call' = At("b112")
    /\ UNCHANGED outsideBoot

\* lines 107-111: if self._http_server, shutdown() in a try; an exception
\* is logged
BootStopShutdown ==
    /\ BootAt("b107")
    /\ \E fails \in BOOLEAN :
           IF boot.http_server = 0
           THEN boot' = boot /\ call' = At("b117")
           ELSE /\ boot' = IF fails
                           THEN [boot EXCEPT !.logged = @ \cup {"shutdown"}]
                           ELSE [boot EXCEPT !.https[boot.http_server].shut = TRUE]
                /\ call' = At("b112")
    /\ UNCHANGED outsideBoot

\* lines 112-116: server_close() in a try, an exception is logged; then
\* self._http_server = None
BootStopClose ==
    /\ BootAt("b112")
    /\ \E fails \in BOOLEAN :
           boot' = IF fails
                   THEN [boot EXCEPT !.logged = @ \cup {"server_close"},
                                     !.https[boot.http_server].fault = TRUE,
                                     !.http_server = 0]
                   ELSE [boot EXCEPT !.https[boot.http_server].sock = "closed",
                                     !.http_server = 0]
    /\ call' = At("b117")
    /\ UNCHANGED outsideBoot

\* lines 117-119: the thread is joined for two seconds at most and the
\* handle cleared, if the thread is alive
BootStopJoinHttp ==
    /\ BootAt("b117")
    /\ boot' = IF boot.http_thread # 0 /\ boot.https[boot.http_thread].alive
               THEN [boot EXCEPT !.http_thread = 0]
               ELSE boot
    /\ call' = At("b121")
    /\ UNCHANGED outsideBoot

\* lines 121-127: if self._tftp_sock, the empty datagram is sent in a try
\* of its own; an exception is passed over
BootStopSend ==
    /\ BootAt("b121")
    /\ \E fails \in BOOLEAN :
           /\ boot' = boot
           /\ call' = IF boot.tftp_sock = 0 THEN At("b132") ELSE At("b128")
    /\ UNCHANGED outsideBoot

\* lines 128-131: close() in the outer try, an exception is logged; then
\* self._tftp_sock = None
BootStopCloseTftp ==
    /\ BootAt("b128")
    /\ \E fails \in BOOLEAN :
           boot' = IF fails
                   THEN [boot EXCEPT !.logged = @ \cup {"close"},
                                     !.tftps[boot.tftp_sock].fault = TRUE,
                                     !.tftp_sock = 0]
                   ELSE [boot EXCEPT !.tftps[boot.tftp_sock].sock = "closed",
                                     !.tftp_sock = 0]
    /\ call' = At("b132")
    /\ UNCHANGED outsideBoot

\* lines 132-134, and the return of stop()
BootStopJoinTftp ==
    /\ BootAt("b132")
    /\ boot' = IF boot.tftp_thread # 0 /\ boot.tftps[boot.tftp_thread].alive
               THEN [boot EXCEPT !.tftp_thread = 0]
               ELSE boot
    /\ call' = At("idle")
    /\ UNCHANGED outsideBoot

BootStop ==
    \/ BootStopSignal
    \/ BootStopShutdown
    \/ BootStopClose
    \/ BootStopJoinHttp
    \/ BootStopSend
    \/ BootStopCloseTftp
    \/ BootStopJoinTftp

\* the serve_forever thread of line 145 ends once its server is shut down
\* or closed
BootHttpThreadEnds(k) ==
    /\ boot.https[k].alive
    /\ boot.https[k].shut \/ boot.https[k].sock = "closed"
    /\ boot' = [boot EXCEPT !.https[k].alive = FALSE]
    /\ UNCHANGED << call, outsideBoot >>

\* _tftp_serve_loop (lines 162-170) ends at the loop test once the event
\* is set, or on the OSError of a closed socket
BootTftpLoopEnds(k) ==
    /\ boot.tftps[k].alive
    /\ boot.stop_event \/ boot.tftps[k].sock = "closed"
    /\ boot' = [boot EXCEPT !.tftps[k].alive = FALSE]
    /\ UNCHANGED << call, outsideBoot >>

NextBoot ==
    \/ BootStart
    \/ BootStop
    \/ \E k \in 1..Len(boot.https) : BootHttpThreadEnds(k)
    \/ \E k \in 1..Len(boot.tftps) : BootTftpLoopEnds(k)

\* a manager asked for with or without TFTP and HTTPS (no certificate
\* given), no request on the wire
InitBoot ==
    /\ fs = SmallFs
    /\ quota = 0
    /\ Constructed
    /\ sessions = <<>>
    /\ script = <<>>
    /\ web = [svc \in WebServices |-> WebConstructed(TRUE, TRUE)]
    /\ \E enable_tftp, enable_https \in BOOLEAN :
           boot = BootRequested(enable_tftp, enable_https)
    /\ cli = CliEntered(PlainArgs)

SpecBoot == InitBoot /\ [][NextBoot]_vars

\* stop() has returned
BootStopped == call.svc = "boot" /\ call.op = "stop" /\ Idle

\* the HTTP server and the TFTP socket that start() bound last: the ones
\* the handles refer to when they are set
LastHttp == boot.https[Len(boot.https)]

LastTftp == boot.tftps[Len(boot.tftps)]

\* C19: a stop() call never raises; and when it has returned both handles
\* are cleared, the HTTP server is closed unless its own server_close()
\* failed, and the TFTP socket is closed unless its own close() failed,
\* whatever else failed on the way.
C19_StopNeverPropagates ==
    /\ (call.svc = "boot" /\ call.op = "stop") => ~call.raised
    /\ BootStopped =>
          /\ boot.http_server = 0
          /\ boot.tftp_sock = 0
          /\ boot.https # <<>> => LastHttp.sock = "closed" \/ LastHttp.fault
          /\ boot.tftps # <<>> => LastTftp.sock = "closed" \/ LastTftp.fault

\* stop() has returned with the failed shutdown() of the HTTP server
\* logged and the TFTP socket closed
C19_Witness ==
    /\ BootStopped
    /\ call.started
    /\ "shutdown" \in boot.logged
    /\ boot.tftps # <<>>
    /\ LastTftp.sock = "closed"
    /\ boot.tftp_sock = 0
    /\ boot.http_server = 0

\* a step of the thread that calls bootServer.start() and stop()
BootCallerStep == call' # call /\ call'.svc = "boot"

\* stop() on a manager that holds no server changes nothing but the event
\* it sets at line 105, and does not raise
StopOnStoppedIsNoOp ==
    (BootCallerStep /\ call'.op = "stop" /\ ~call'.started)
        => /\ ~call'.raised
           /\ boot' = [boot EXCEPT !.stop_event = TRUE]

\* start() on a manager that holds a server binds no HTTP server and no
\* TFTP socket, starts no thread and leaves both ports as they are
StartOnStartedIsNoOp ==
    (BootCallerStep /\ call'.op = "start" /\ call'.started)
        => /\ boot'.https = boot.https
           /\ boot'.tftps = boot.tftps
           /\ boot'.http_sock_port = boot.http_sock_port
           /\ boot'.tftp_sock_port = boot.tftp_sock_port

\* C20: start() on a started manager binds nothing, starts no thread and
\* keeps the ports; stop() on a stopped or never started manager changes
\* nothing and does not raise.
C20_BootStartStopIdempotent ==
    [][ StartOnStartedIsNoOp /\ StopOnStoppedIsNoOp ]_vars

\* the half of C20 about stop()
C20_StopHalf == [][ StopOnStoppedIsNoOp ]_vars

\* a second start() has returned on a started manager with a second HTTP
\* server bound on another port and the first one still open
C20_SecondServerBound ==
    /\ call = Enter("boot", "start", TRUE, "idle")
    /\ Len(boot.https) = 2
    /\ boot.https[1].sock = "open"
    /\ boot.http_sock_port = PortOf(2)

\* a port attribute that reads as a port number, and one that reads as None
IsPortNumber(p) == p > 0

IsNone(p) == p = 0

\* C21: between the calls on a bootServer each port attribute is a port
\* number if its service is running (enabled and started, not stopped)
\* and None otherwise.
C21_BootPortsReported ==
    (Idle /\ call.svc \in { "none", "boot" }) =>
        /\ IF boot.http_server # 0
           THEN IsPortNumber(boot.http_sock_port)
           ELSE IsNone(boot.http_sock_port)
        /\ IF boot.tftp_sock # 0
           THEN IsPortNumber(boot.tftp_sock_port)
           ELSE IsNone(boot.tftp_sock_port)

\* start() has returned on a manager without TFTP and tftp_sock_port is
\* still not assigned
C21_TftpPortUnsetWhenDisabled ==
    /\ call = Enter("boot", "start", FALSE, "idle")
    /\ ~boot.enable_tftp
    /\ boot.http_server # 0
    /\ boot.tftp_sock_port = Unset

\* stop() has returned on a started manager and both ports still read as
\* the ports that were bound
C21_PortsKeptAfterStop ==
    /\ call = Enter("boot", "stop", TRUE, "idle")
    /\ boot.http_server = 0
    /\ boot.tftp_sock = 0
    /\ IsPortNumber(boot.http_sock_port)
    /\ IsPortNumber(boot.tftp_sock_port)

\* start() has returned on the manager
BootStartReturned == call.svc = "boot" /\ call.op = "start" /\ Idle

\* C22: a manager asked for with HTTPS enabled and no certificate or key
\* is built; its start() raises with no TFTP socket bound and no TFTP
\* thread started; and once stop() has returned no HTTP server it bound
\* is left open.
C22_HttpsNeedsCerts ==
    boot.enable_https =>
        /\ boot.built
        /\ BootStartReturned => (call.raised /\ boot.tftps = <<>>)
        /\ BootStopped =>
              \A k \in 1..Len(boot.https) : boot.https[k].sock = "closed"

\* the constructor call with enable_https=True has raised: there is no
\* manager to start
C22_NotBuilt ==
    /\ boot.enable_https
    /\ ~boot.built
    /\ call.svc = "none"

\* C23: a handler never has more than one transfer socket open, the one
\* it waits on; and once it has returned, however its session ended, it
\* has no transfer socket open and its file is closed.
C23_ResourcesReleased ==
    \A i \in Sessions :
        LET s == sessions[i]
        IN  /\ s.live \in { 0, 1 }
            /\ s.live = 1 <=> s.tx = "open"
            /\ s.tx = "open" => s.pc = "wait"
            /\ s.pc = "done" => (s.live = 0 /\ s.tx # "open" /\ s.f # "open")

\* one handler has completed a two-block transfer and the other has
\* returned on an exception after its first DATA packet, both with their
\* sockets and files closed
C23_Witness ==
    \E i, j \in Sessions :
        /\ Completed(sessions[i])
        /\ sessions[i].nData = 2
        /\ sessions[i].tx = "closed"
        /\ sessions[i].f = "closed"
        /\ HasLog(sessions[j], "exception")
        /\ sessions[j].nData = 1
        /\ sessions[j].pc = "done"
        /\ sessions[j].tx = "closed"
        /\ sessions[j].f = "closed"

\* stop() has returned on a listener that was started
StopReturned == call = Enter("tftp", "stop", TRUE, "idle")

C24_DispatchedAfterStop ==
    /\ StopReturned
    /\ lsocks[Current].state = "open"
    /\ lsocks[Current].fault
    /\ quota = 0
    /\ \E i \in Sessions : sessions[i].data # <<>> /\ sessions[i].pc = "validate"
    /\ loops[Current].pc = "exited"

\* close() has raised on none of the listener sockets
NoCloseFault == \A k \in 1..Len(lsocks) : ~lsocks[k].fault

OwnProgress(s) ==
    LET size == FileOf(fs, s.candidate).size
    IN  /\ s.pc = "send" => /\ s.block_num = s.nData + 1
                            /\ s.pos = BLOCK_SIZE * s.nData
        /\ s.pc = "wait" => /\ s.block_num = s.nData
                            /\ s.pos = Min(size, BLOCK_SIZE * s.nData)
                            /\ s.tx = "open"

\* C25: a dispatched request, a duplicate of one in flight or not, gets a
\* handler record of its own; every handler's block number and file
\* position are those of its own history (block 1 and position 0 before
\* its first DATA packet); and a step of one handler (a DATA packet, an
\* ACK, an abort, a completion) changes no other handler's record.
C25_DuplicateRrqIndependent ==
    /\ []( \A i \in Sessions : InBlockLoop(sessions[i]) => OwnProgress(sessions[i]) )
    /\ [][ Dispatched
             => /\ sessions'[Len(sessions')].pc = "validate"
                /\ sessions'[Len(sessions')].nData = 0
                /\ \A i \in Sessions : sessions'[i] = sessions[i] ]_vars
    /\ [][ \A i, j \in Sessions :
               (i # j /\ sessions'[i] # sessions[i]) => sessions'[j] = sessions[j]
         ]_vars

\* the same peer has asked twice for the two-block file: the first
\* handler waits for the ACK of block 2 while the second waits for the
\* ACK of its block 1, each having delivered its own bytes intact
C25_Witness ==
    /\ Len(sessions) = 2
    /\ sessions[1].data = Rrq(s_f513, s_octet)
    /\ sessions[2].data = sessions[1].data
    /\ sessions[2].addr = sessions[1].addr
    /\ Waiting(sessions[1]) /\ sessions[1].block_num = 2 /\ sessions[1].pos = 513
    /\ Waiting(sessions[2]) /\ sessions[2].block_num = 1 /\ sessions[2].pos = 512
    /\ sessions[1].intact /\ sessions[2].intact

\* ------------------------------------------------------- cli.py: main
\* what the steps of cli.main leave alone
outsideCli == << fs, quota, sock, sessions, lsocks, sock_port, thread, loops,
                 stop_event, call, script, web, boot >>

CliAt(line) == cli.pc = line

\* a test that accepts a certificate without a key
CertsMissingCertOnly(args) == args.enable_https /\ ~args.ssl_certfile

\* line 43: args.enable_https and (not args.ssl_certfile or not
\* args.ssl_keyfile)
CertsMissing(args) ==
    args.enable_https /\ (~args.ssl_certfile \/ ~args.ssl_keyfile)

\* lines 37-40: return 2 when the root directory does not exist
CliRootCheck ==
    /\ CliAt("l37")
    /\ cli' = IF ~cli.args.root_exists
              THEN [cli EXCEPT !.pc = "returned", !.code = 2]
              ELSE [cli EXCEPT !.pc = "l43"]
    /\ UNCHANGED outsideCli

\* lines 43-45: return 2 when HTTPS is asked for without both files
CliCertCheck ==
    /\ CliAt("l43")
    /\ cli' = IF CertsMissing(cli.args)
              THEN [cli EXCEPT !.pc = "returned", !.code = 2]
              ELSE [cli EXCEPT !.pc = "l47"]
    /\ UNCHANGED outsideCli

\* lines 47-69: the server object is built and the signal handlers are
\* installed
CliBuild ==
    /\ CliAt("l47")
    /\ cli' = [cli EXCEPT !.built = TRUE, !.pc = "l72"]
    /\ UNCHANGED outsideCli

\* lines 47-58: the constructor raises, outside any try (the bootServer of
\* server.py does, on the keyword enable_https)
CliBuildFails ==
    /\ CliAt("l47")
    /\ cli' = [cli EXCEPT !.pc = "raised"]
    /\ UNCHANGED outsideCli

\* lines 63-66: _on_signal runs on SIGINT or SIGTERM
CliOnSignal ==
    /\ cli.pc \in { "l72", "l75" }
    /\ ~cli.stop_requested
    /\ cli' = [cli EXCEPT !.stop_requested = TRUE]
    /\ UNCHANGED outsideCli

\* lines 72-73: server.start() returns and the ports are logged
CliStart ==
    /\ CliAt("l72")
    /\ cli' = [cli EXCEPT !.starts = @ + 1, !.pc = "l75"]
    /\ UNCHANGED outsideCli

\* line 72: server.start() raises an Exception; lines 79-80
CliStartFails ==
    /\ CliAt("l72")
    /\ cli' = [cli EXCEPT !.starts = @ + 1, !.start_raised = TRUE, !.pc = "l81"]
    /\ UNCHANGED outsideCli

\* lines 75-76: the loop test finds stop_requested set (signal.pause()
\* returns when a handler has run); the try block is left
CliLoopEnds ==
    /\ CliAt("l75")
    /\ cli.stop_requested
    /\ cli' = [cli EXCEPT !.pending = 0, !.pc = "l87"]
    /\ UNCHANGED outsideCli

\* lines 76-78: KeyboardInterrupt out of signal.pause()
CliInterrupt ==
    /\ CliAt("l75")
    /\ cli' = [cli EXCEPT !.pending = 0, !.pc = "l87"]
    /\ UNCHANGED outsideCli

\* lines 81-85: server.stop() in a try of its own, then return 1, which
\* the finally clause precedes
CliExceptStop ==
    /\ CliAt("l81")
    /\ \E fails \in BOOLEAN :
           cli' = [cli EXCEPT !.stop_raised = Append(@, fails),
                              !.pending = 1, !.pc = "l87"]
    /\ UNCHANGED outsideCli

\* a finally clause that does not call server.stop()
CliFinallyNoStop ==
    /\ CliAt("l87")
    /\ cli' = [cli EXCEPT !.pc = "returned", !.code = cli.pending]
    /\ UNCHANGED outsideCli

\* lines 86-90: finally server.stop(); main returns the pending value, or
\* the exception of stop() leaves main
CliFinally ==
    /\ CliAt("l87")
    /\ \E fails \in BOOLEAN :
           cli' = IF fails
                  THEN [cli EXCEPT !.stop_raised = Append(@, TRUE), !.pc = "raised"]
                  ELSE [cli EXCEPT !.stop_raised = Append(@, FALSE),
                                   !.pc = "returned", !.code = cli.pending]
    /\ UNCHANGED outsideCli

NextCli ==
    \/ CliRootCheck
    \/ CliCertCheck
    \/ CliBuild
    \/ CliBuildFails
    \/ CliOnSignal
    \/ CliStart
    \/ CliStartFails
    \/ CliLoopEnds
    \/ CliInterrupt
    \/ CliExceptStop
    \/ CliFinally

\* main called with any combination of root directory, --enable-https,
\* --ssl-certfile and --ssl-keyfile
InitCli ==
    /\ fs = SmallFs
    /\ quota = 0
    /\ Constructed
    /\ sessions = <<>>
    /\ script = <<>>
    /\ web = [svc \in WebServices |-> WebConstructed(TRUE, TRUE)]
    /\ boot = BootConstructed(TRUE)
    /\ \E root_exists, enable_https, ssl_certfile, ssl_keyfile \in BOOLEAN :
           cli = CliEntered([ root_exists |-> root_exists,
                              enable_https |-> enable_https,
                              ssl_certfile |-> ssl_certfile,
                              ssl_keyfile |-> ssl_keyfile ])

SpecCli == InitCli /\ [][NextCli]_vars

\* the arguments main must refuse
BadArgs ==
    \/ ~cli.args.root_exists
    \/ cli.args.enable_https /\ ~cli.args.ssl_certfile
    \/ cli.args.enable_https /\ ~cli.args.ssl_keyfile

\* C26: called with a root directory that does not exist, or with HTTPS
\* enabled and the certificate file or the key file missing, main builds
\* no server, never calls start(), raises nothing, and when it has
\* returned its exit code is 2.
C26_BadArgsExitTwo ==
    BadArgs =>
        /\ ~cli.built
        /\ cli.starts = 0
        /\ cli.pc \in { "l37", "l43", "returned" }
        /\ cli.pc = "returned" => cli.code = 2

\* main has returned 2 for an existing root with HTTPS enabled, the
\* certificate given and the key missing
C26_Witness ==
    /\ cli.args.root_exists
    /\ cli.args.enable_https
    /\ cli.args.ssl_certfile
    /\ ~cli.args.ssl_keyfile
    /\ cli.pc = "returned"
    /\ cli.code = 2
    /\ cli.starts = 0

\* main is over, by return or by an exception
CliOver == cli.pc \in { "returned", "raised" }

\* the last stop() call raised
LastStopRaised == cli.stop_raised # <<>> /\ cli.stop_raised[Len(cli.stop_raised)]

\* C27 as stated: when main is over with the server object built, stop()
\* has been called, and main has returned 1 if start() raised and 0
\* otherwise.
C27_StopCalledExitCode ==
    (CliOver /\ cli.built) =>
        /\ Len(cli.stop_raised) >= 1
        /\ cli.pc = "returned"
        /\ cli.code = IF cli.start_raised THEN 1 ELSE 0

\* start() and both stop() calls have raised: main is left by the
\* exception of the second stop()
C27_StopRaisedTwice ==
    /\ cli.pc = "raised"
    /\ cli.built
    /\ cli.start_raised
    /\ cli.stop_raised = << TRUE, TRUE >>

\* C27: when main is over with the server object built, stop() has been
\* called (twice when start() raised); main has returned unless its last
\* stop() call, the one of the finally clause, raised, in which case that
\* exception leaves main; and when it has returned its exit code is 1 if
\* start() raised, also when the first stop() call raised, and 0
\* otherwise.
C27_StopCalledExitCodeIfStopReturns ==
    (CliOver /\ cli.built) =>
        /\ Len(cli.stop_raised) = IF cli.start_raised THEN 2 ELSE 1
        /\ cli.pc = "raised" <=> LastStopRaised
        /\ cli.pc = "returned" => cli.code = IF cli.start_raised THEN 1 ELSE 0

\* start() raised, the first stop() raised, the second did not: main has
\* returned 1
C27_Witness ==
    /\ cli.pc = "returned"
    /\ cli.built
    /\ cli.start_raised
    /\ cli.stop_raised = << TRUE, FALSE >>
    /\ cli.code = 1

\* a signal was handled after start(): main has returned 0 with one
\* stop() call
C27_SignalWitness ==
    /\ cli.pc = "returned"
    /\ cli.starts = 1
    /\ ~cli.start_raised
    /\ cli.stop_requested
    /\ cli.stop_raised = << FALSE >>
    /\ cli.code = 0

\* the HttpsFileServer is as its constructor left it
HttpsStopped ==
    /\ web["https"].server = 0
    /\ web["https"].thread = 0
    /\ web["https"].sock_port = 0

\* C28: an HttpsFileServer without certfile or without keyfile never
\* binds a socket and stays stopped (_server, _thread and sock_port
\* unset), and every start() call on it raises; and a start() call on a
\* started HttpsFileServer raises nothing and changes nothing of the
\* server, its sockets included.
C28_HttpsStartNeedsCerts ==
    /\ []( (~web["https"].certfile \/ ~web["https"].keyfile)
              => /\ web["https"].socks = <<>>
                 /\ HttpsStopped
                 /\ (call.svc = "https" /\ call.op = "start") => call.raised )
    /\ [][ (call' # call /\ call'.svc = "https" /\ call'.op = "start"
               /\ call'.started)
              => (~call'.raised /\ web' = web) ]_vars

\* start() has raised on an HttpsFileServer that has a certfile and no
\* keyfile, nothing bound
C28_Witness ==
    /\ web["https"].certfile
    /\ ~web["https"].keyfile
    /\ call = [Enter("https", "start", FALSE, "idle") EXCEPT !.raised = TRUE]
    /\ web["https"].socks = <<>>
    /\ HttpsStopped

\* start() has returned at once on a started HttpsFileServer
C28_StartAgainWitness ==
    /\ call = Enter("https", "start", TRUE, "idle")
    /\ web["https"].server # 0
    /\ Len(web["https"].socks) = 1

\* stop() of service svc has returned or raised
StopOver(svc) == call.svc = svc /\ call.op = "stop" /\ call.at = "idle"

\* C29: stop() of TftpServer, HttpFileServer and HttpsFileServer never
\* raises, whether or not shutdown(), close() or the dummy sendto failed;
\* when it is over the socket or server handle is cleared and sock_port
\* is unset, and no live service thread is left in the thread handle; a
\* thread is joined at most once, the handle of a thread is cleared only
\* by the stop() that joins it, and only a thread that had exited leaves
\* the handle without a join.
C29_StopSwallowsFailures ==
    /\ []( (call.op = "stop" /\ call.svc \in WebServices \cup { "tftp" })
              => ~call.raised )
    /\ []( StopOver("tftp")
              => (sock = "none" /\ sock_port = 0 /\ ~Alive(thread)) )
    /\ []( \A svc \in WebServices :
               StopOver(svc)
                  => /\ web[svc].server = 0
                     /\ web[svc].sock_port = 0
                     /\ (web[svc].thread = 0 \/ web[svc].serving # "running") )
    /\ []( \A k \in 1..Len(loops) :
               /\ loops[k].joins <= 1
               /\ loops[k].joins = 1 => k # thread
               /\ k # thread => (loops[k].joins = 1 \/ loops[k].pc = "exited") )
    /\ []( \A svc \in WebServices :
               /\ web[svc].joins <= 1
               /\ web[svc].joins = 1 => web[svc].thread = 0 )
    /\ [][ (thread # 0 /\ thread' = 0)
              => (call.op = "stop" /\ loops'[thread].joins = loops[thread].joins + 1) ]_vars
    /\ [][ \A svc \in WebServices :
               (web[svc].thread # 0 /\ web'[svc].thread = 0)
                  => /\ call.op = "stop" /\ call.svc = svc
                     /\ web'[svc].joins = web[svc].joins + 1 ]_vars

\* stop() of a started HttpFileServer is over: shutdown() failed (the
\* thread still serves), server_close() failed (the socket is open), the
\* handle and the port are cleared and the thread was joined once
C29_Witness ==
    /\ StopOver("http")
    /\ call.started
    /\ ~call.raised
    /\ web["http"].serving = "running"
    /\ web["http"].socks[Len(web["http"].socks)] = "open"
    /\ web["http"].server = 0
    /\ web["http"].sock_port = 0
    /\ web["http"].thread = 0
    /\ web["http"].joins = 1

\* stop() of a started TftpServer is over: close() raised, the handle and
\* the port are cleared and the live thread was joined once
C29_TftpWitness ==
    /\ StopOver("tftp")
    /\ call.started
    /\ ~call.raised
    /\ lsocks[Current].fault
    /\ lsocks[Current].state = "open"
    /\ sock = "none"
    /\ sock_port = 0
    /\ thread = 0
    /\ \E k \in 1..Len(loops) : loops[k].joins = 1 /\ loops[k].pc # "exited"

\* the k-th DATA packet of s carried the k-th 512-byte chunk of the file:
\* the payloads so far are the file's bytes in order, each chunk once
EachChunkOnce(s) ==
    /\ s.intact
    /\ s.delivered = Min(FileOf(fs, s.candidate).size, BLOCK_SIZE * s.nData)
    /\ s.lastBlock = s.nData % BlockModulus

\* C30: the handler never retransmits: the DATA packets of a session
\* carry the 512-byte chunks of the file in order, each chunk in one
\* packet; a DATA packet is sent only at the top of the loop, as the first
\* packet or after the matching ACK of the packet before it; a wait that
\* ends without the matching ACK (a timeout, a short or non-matching
\* reply, a failing recvfrom) ends the session; and an ended session
\* sends nothing more.
C30_NoRetransmission ==
    /\ []( \A i \in Sessions : sessions[i].nData > 0 => EachChunkOnce(sessions[i]) )
    /\ [][ \A i \in Sessions :
               sessions'[i].nData # sessions[i].nData
                  => /\ sessions'[i].nData = sessions[i].nData + 1
                     /\ sessions[i].pc = "send"
                     /\ sessions[i].nAck = sessions[i].nData ]_vars
    /\ [][ \A i \in Sessions :
               (sessions[i].pc = "wait" /\ sessions'[i] # sessions[i]
                   /\ sessions'[i].nAck = sessions[i].nAck)
                  => sessions'[i].pc = "done" ]_vars
    /\ [][ \A i \in Sessions :
               sessions[i].pc = "done"
                  => /\ sessions'[i].nData = sessions[i].nData
                     /\ sessions'[i].pc = "done" ]_vars

\* the wait for the ACK of block 1 of the two-block file timed out: the
\* session is over with one DATA packet sent and 512 bytes delivered
C30_Witness ==
    \E i \in Sessions :
        /\ sessions[i].data = Rrq(s_f513, s_octet)
        /\ sessions[i].pc = "done"
        /\ HasLog(sessions[i], "timeout")
        /\ sessions[i].nData = 1
        /\ sessions[i].nReply = 0
        /\ sessions[i].delivered = BLOCK_SIZE

\* the ACK of another block answered block 1 of the two-block file: the
\* session is over with one DATA packet sent
C30_MismatchWitness ==
    \E i \in Sessions :
        /\ sessions[i].data = Rrq(s_f513, s_octet)
        /\ sessions[i].pc = "done"
        /\ HasLog(sessions[i], "unexpected_ack")
        /\ sessions[i].nData = 1
        /\ sessions[i].nReply = 1
        /\ sessions[i].nAck = 0

\* C31: a datagram that reaches the transfer socket from an address other
\* than the session's peer does not advance the block number and does not
\* complete the transfer.
C31_AckOnlyFromPeer ==
    [][ \A i \in Sessions :
            (sessions[i].pc = "wait"
                /\ sessions'[i].nForeign > sessions[i].nForeign)
               => /\ sessions'[i].block_num = sessions[i].block_num
                  /\ ~Completed(sessions'[i]) ]_vars

\* the ACK of block 1 came from a stranger and the handler went on to
\* block 2 of the two-block file
C31_StrangerAdvances ==
    \E i \in Sessions :
        /\ sessions[i].data = Rrq(s_f513, s_octet)
        /\ sessions[i].addr \in Peers
        /\ sessions[i].nForeign = 1
        /\ sessions[i].nReply = 1
        /\ sessions[i].block_num = 2
        /\ sessions[i].pc = "send"

\* C32: every DATA packet leaves on a transfer socket made for it (no
\* transfer socket of the session was open before the send, one is open
\* after it) and never on the listener socket; every packet sent with
\* _send_error is an ERROR packet and leaves on the listener socket.
C32_SocketRoles ==
    /\ []( \A i \in Sessions :
               /\ sessions[i].lastVia \in { "none", "tx" }
               /\ sessions[i].nData > 0 => sessions[i].lastVia = "tx"
               /\ \A k \in 1..Len(sessions[i].errs) :
                      /\ sessions[i].errs[k].via = "listener"
                      /\ ErrOpcode(sessions[i].errs[k].pkt) = OP_ERROR )
    /\ [][ \A i \in Sessions :
               sessions'[i].nData # sessions[i].nData
                  => /\ sessions[i].live = 0
                     /\ sessions'[i].live = 1
                     /\ sessions'[i].tx = "open"
                     /\ sessions'[i].lastVia = "tx"
                     /\ sessions'[i].errs = sessions[i].errs ]_vars

\* recvfrom raised after DATA block 1 had left on the transfer socket:
\* the session ended with one DATA packet from the transfer socket and
\* one ERROR packet from the listener socket
C32_Witness ==
    \E i \in Sessions :
        /\ sessions[i].pc = "done"
        /\ sessions[i].nData = 1
        /\ sessions[i].lastVia = "tx"
        /\ sessions[i].live = 0
        /\ Len(sessions[i].errs) = 1
        /\ sessions[i].errs[1].via = "listener"
        /\ ErrCode(sessions[i].errs[1].pkt) = 0

\* the ERROR code that the checks of a request, taken in their order,
\* call for: packet length, opcode, RRQ shape, mode, path containment
\* (component by component), file existence; -1 when every check passes
ExpectedCode(data) ==
    IF Len(data) < 2 THEN 0
    ELSE IF Unpack16(Take(data, 2)) # OP_RRQ THEN 4
    ELSE LET parts == Split(Drop(data, 2), NUL)
         IN  IF Len(parts) < 2 THEN 0
             ELSE IF Lower(Decode(parts[2])) \notin { s_octet, s_binary } THEN 0
             ELSE IF ~UnderRoot(Candidate(Decode(parts[1]))) THEN 2
             ELSE IF ~IsFile(fs, Candidate(Decode(parts[1]))) THEN 1
             ELSE -1

\* the requested path is in a directory beside the root whose name
\* begins with the root's name
BesideRoot(data) ==
    /\ ExpectedCode(data) = 2
    /\ LET parts == Split(Drop(data, 2), NUL)
       IN  PathAllowed(Candidate(Decode(parts[1])))

\* C33: the first failing check, in the order packet length, opcode, RRQ
\* shape, mode, path containment, file existence, decides the one ERROR
\* code a request is answered with, and no DATA packet is sent for it; a
\* request that passes every check gets no ERROR from validation.
C33_FirstFailingCheckDecides ==
    \A i \in Sessions :
        LET s == sessions[i]
        IN  s.pc # "validate"
               => IF ExpectedCode(s.data) = -1
                  THEN s.nData > 0 \/ s.pc = "send"
                  ELSE /\ s.pc = "done"
                       /\ OneError(s, ExpectedCode(s.data))
                       /\ s.nData = 0

\* the same for every request but those for paths beside the root
C33_OrderWithinRoot ==
    \A i \in Sessions :
        LET s == sessions[i]
        IN  (s.pc # "validate" /\ ~BesideRoot(s.data))
               => IF ExpectedCode(s.data) = -1
                  THEN s.nData > 0 \/ s.pc = "send"
                  ELSE /\ s.pc = "done"
                       /\ OneError(s, ExpectedCode(s.data))
                       /\ s.nData = 0

\* the request for the missing file m of the directory /srv/boot-evil
\* beside the root was answered with code 1
C33_SiblingMissingNotFound ==
    \E i \in Sessions :
        /\ sessions[i].data = Rrq(n_sibling_missing, s_octet)
        /\ sessions[i].pc = "done"
        /\ OneError(sessions[i], 1)

\* the netascii request for ../secret was answered with code 0
C33_ModeBeforePath ==
    \E i \in Sessions :
        /\ sessions[i].data = Rrq(n_up_secret, s_netascii)
        /\ sessions[i].pc = "done"
        /\ OneError(sessions[i], 0)
        /\ ErrMessage(sessions[i].errs[1].pkt) = m_mode

\* C34: the empty datagram that stop() sends to the listener's own
\* address is never handed to a request handler, and no packet is ever
\* sent to the listener's own address.
C34_DummyOnlyUnblocks ==
    /\ [][ Dispatched => sessions'[Len(sessions')].addr # Self ]_vars
    /\ []( \A i \in Sessions :
               /\ sessions[i].nData > 0 => sessions[i].addr # Self
               /\ \A k \in 1..Len(sessions[i].errs) :
                      sessions[i].errs[k].to # Self )

\* stop() is between its sendto and its close(): the accept loop has
\* handed the empty datagram to a handler, which has answered the
\* listener's own address with ERROR 0 "Invalid packet"
C34_ErrorToSelf ==
    /\ call.svc = "tftp"
    /\ call.op = "stop"
    /\ call.at = "t54"
    /\ \E i \in Sessions :
           /\ sessions[i].data = <<>>
           /\ sessions[i].addr = Self
           /\ sessions[i].pc = "done"
           /\ OneError(sessions[i], 0)
           /\ ErrMessage(sessions[i].errs[1].pkt) = m_invalid
           /\ sessions[i].errs[1].to = Self

\* the first packet the peer of s got: DATA block 1, or one ERROR and no
\* DATA
FirstReplyGiven(s) ==
    \/ s.nData >= 1
    \/ s.nData = 0 /\ Len(s.errs) = 1 /\ s.errs[1].to = s.addr

\* C35: the handler of a peer's datagram does not return before the peer
\* was sent a first reply, DATA block 1 or an ERROR, whatever stop() does
\* meanwhile.
C35_EveryRequestAnswered ==
    \A i \in Sessions :
        (sessions[i].addr \in Peers /\ sessions[i].pc = "done")
           => FirstReplyGiven(sessions[i])

\* the request for a missing file was dispatched, stop() cleared
\* self._sock, and the handler returned from its existence check with
\* nothing sent
C35_DroppedAfterStop ==
    \E i \in Sessions :
        /\ sessions[i].data = Rrq(n_missing, s_octet)
        /\ sessions[i].addr \in Peers
        /\ sessions[i].pc = "done"
        /\ sessions[i].errs = <<>>
        /\ sessions[i].nData = 0
        /\ ~Raised(sessions[i])
        /\ sock = "none"

\* the same with the socket closed and self._sock still set: sendto
\* raised inside _send_error and was logged
C35_DroppedOnClosedSocket ==
    \E i \in Sessions :
        /\ sessions[i].data = Rrq(n_missing, s_octet)
        /\ sessions[i].pc = "done"
        /\ sessions[i].errs = <<>>
        /\ HasLog(sessions[i], "send_failed")

\* HttpsFileServer.start() has raised on a server that has its certfile
\* and its keyfile
HttpsStartRaised ==
    /\ call.svc = "https"
    /\ call.op = "start"
    /\ call.at = "idle"
    /\ call.raised
    /\ CertsGiven(web["https"])

\* C36: when HttpsFileServer.start() has raised on a server that has its
\* certificate and key paths, no socket that it bound is open.
C36_FailedStartReleasesPort ==
    HttpsStartRaised
       => \A k \in 1..Len(web["https"].socks) : web["https"].socks[k] # "open"

\* load_cert_chain raised: start() is over, the server is stopped
\* (_server, _thread and sock_port unset) and the socket bound at line 71
\* is open
C36_SocketLeftOpen ==
    /\ HttpsStartRaised
    /\ HttpsStopped
    /\ Len(web["https"].socks) = 1
    /\ web["https"].socks[1] = "open"

\* a start() that came after a stop() has returned: the listener was
\* bound a second time
Restarted ==
    /\ call.svc = "tftp"
    /\ call.op = "start"
    /\ call.at = "idle"
    /\ ~call.raised
    /\ Len(lsocks) >= 2

\* the loop k was started by an earlier start() than the one that bound
\* the newest socket
EarlierLoop(k) == loops[k].sk < Len(lsocks)

\* the listener is running on its newest socket, with a port, and the
\* thread of the handle is the one loop on that socket that has not exited
RunningOnNewSocket ==
    /\ sock = "open"
    /\ lsocks[Current].state = "open"
    /\ sock_port = PortOf(Current)
    /\ { k \in 1..Len(loops) : loops[k].sk = Current /\ loops[k].pc # "exited" }
          = { thread }

\* the step hands the datagram that loop k had received to a handler
DispatchedBy(k) == loops[k].pc = "got" /\ loops'[k].pc # "got"

C37_PendingAcrossRestart ==
    /\ Restarted
    /\ NoCloseFault
    /\ loops[1].pc = "got"
    /\ loops[1].addr = Self
    /\ Receiving(2)

\* C38: the record "Completed TFTP transfer" is logged for a session only
\* if its last DATA packet was a short block and every DATA packet was
\* answered with its matching ACK; a session that logged a timeout, a
\* short ACK or an unexpected ACK never logs it.
C38_CompletedOnlyAfterFinalAck ==
    \A i \in Sessions :
        HasLog(sessions[i], "completed")
           => /\ sessions[i].nData >= 1
              /\ sessions[i].lastLen < BLOCK_SIZE
              /\ sessions[i].nAck = sessions[i].nData
              /\ ~Warned(sessions[i])

\* the wait for the ACK of block 1 of the two-block file timed out, and
\* the session logged the timeout and then "Completed TFTP transfer"
C38_CompletedAfterTimeout ==
    \E i \in Sessions :
        /\ sessions[i].data = Rrq(s_f513, s_octet)
        /\ sessions[i].pc = "done"
        /\ sessions[i].nData = 1
        /\ sessions[i].nAck = 0
        /\ sessions[i].delivered = BLOCK_SIZE
        /\ sessions[i].log = << "rrq", "timeout", "completed" >>

\* the DATA packets a transfer of a file of size bytes may take
MaxPackets(size) == (size \div BLOCK_SIZE) + 1

\* C39: every handler that was started eventually returns, whatever the
\* peer and strangers send or fail to send and whatever raises, and by
\* then it has sent at most floor(S/512)+1 DATA packets for a file of S
\* bytes, and none when it opened no file.
C39_EverySessionTerminates ==
    /\ (Len(sessions) >= 1) ~> (Len(sessions) >= 1 /\ sessions[1].pc = "done")
    /\ []( \A i \in Sessions :
               IF sessions[i].f = "none"
               THEN sessions[i].nData = 0
               ELSE sessions[i].nData
                       <= MaxPackets(FileOf(fs, sessions[i].candidate).size) )

\* the handler has returned after it sent the 1024-byte file in its
\* three DATA packets, the last one empty
C39_Witness ==
    /\ Len(sessions) = 1
    /\ sessions[1].pc = "done"
    /\ sessions[1].data = Rrq(s_f1024, s_octet)
    /\ sessions[1].nData = 3
    /\ sessions[1].nData = MaxPackets(1024)
    /\ sessions[1].lastLen = 0
    /\ sessions[1].nAck = 3

\* ------------------------------------- the TFTP engine embedded in bootServer
\* server.py lines 162-245, run in the place of the standalone engine:
\* self._tftp_sock is the listener of the model (sock, lsocks[Current]) and
\* self.root_dir the same resolved directory (server.py line 80).

\* bootServer._send_tftp_error, called with self._tftp_sock
TftpSendError(s, code, message) ==
    IF sock = "none" THEN s
    ELSE IF lsocks[Current].state # "open" THEN Logged(s, "send_failed")
    ELSE [s EXCEPT !.errs = Append(@, [ via |-> "listener", to |-> s.addr,
               pkt |-> Pack16(OP_ERROR) \o Pack16(code) \o message \o << NUL >> ])]

\* server.py lines 233-236: the except clause of _handle_tftp_request
TftpExcepted(s) ==
    [TftpSendError(Logged(s, "exception"), 0, m_server) EXCEPT !.pc = "done"]

\* server.py lines 175-206 of _handle_tftp_request
TftpValidated(s) ==
    IF Len(s.data) < 2
    THEN [TftpSendError(s, 0, m_invalid) EXCEPT !.pc = "done"]
    ELSE IF Unpack16(SubSeq(s.data, 1, 2)) # OP_RRQ
    THEN [TftpSendError(s, 4, m_illegal) EXCEPT !.pc = "done"]
    ELSE LET parts == Split(SubSeq(s.data, 3, Len(s.data)), NUL)
         IN  IF parts = <<>> \/ Len(parts) < 2
             THEN [TftpSendError(s, 0, m_malformed) EXCEPT !.pc = "done"]
             ELSE LET filename == Decode(parts[1])
                      mode == IF Len(parts) > 1 THEN Decode(parts[2]) ELSE s_octet
                      logged == Logged(s, "rrq")
                      candidate == Resolve(root_dir, PathParts(LStrip(filename)))
                  IN  IF Lower(mode) \notin { s_octet, s_binary }
                      THEN [TftpSendError(logged, 0, m_mode) EXCEPT !.pc = "done"]
                      ELSE IF ~StartsWith(PathStr(candidate), PathStr(root_dir))
                      THEN [TftpSendError(logged, 2, m_access) EXCEPT !.pc = "done"]
                      ELSE IF ~IsFile(fs, candidate)
                      THEN [TftpSendError(logged, 1, m_notfound) EXCEPT !.pc = "done"]
                      ELSE [logged EXCEPT !.candidate = candidate, !.f = "open",
                                          !.pos = 0, !.block_num = 1, !.pc = "send"]

\* server.py lines 209-213: read a chunk, build the DATA packet, send it on
\* a new socket
TftpSent(s) ==
    LET chunk == Read(fs, s.candidate, s.pos, BLOCK_SIZE)
        r == [s EXCEPT !.chunk_len = Len(chunk), !.pos = @ + Len(chunk)]
    IN  IF ~PackRange(s.block_num)
        THEN TftpExcepted([r EXCEPT !.f = "closed"])
        ELSE Observed([r EXCEPT !.tx = "open", !.live = @ + 1, !.pc = "wait"],
                      Pack16(OP_DATA) \o Pack16(s.block_num) \o chunk, "tx")

\* server.py lines 209-213 when socket.socket() or tx.sendto() raises
TftpSendFailed(s) ==
    LET chunk == Read(fs, s.candidate, s.pos, BLOCK_SIZE)
    IN  TftpExcepted([s EXCEPT !.chunk_len = Len(chunk), !.pos = @ + Len(chunk),
                               !.tx = "closed", !.f = "closed"])

\* server.py line 232 after a break: f is closed, then "Completed" is logged
TftpLoopExit(s) ==
    [Logged([s EXCEPT !.f = "closed"], "completed") EXCEPT !.pc = "done"]

\* server.py lines 215-231 when recvfrom(4) returns a datagram
TftpReceived(s, reply) ==
    LET ack == SubSeq(reply, 1, IF Len(reply) < 4 THEN Len(reply) ELSE 4)
        closed == [s EXCEPT !.tx = "closed", !.live = @ - 1]
    IN  IF Len(ack) < 4
        THEN TftpLoopExit(Logged(closed, "short_ack"))
        ELSE IF \/ Unpack16(SubSeq(ack, 1, 2)) # OP_ACK
                \/ Unpack16(SubSeq(ack, 3, 4)) # s.block_num
        THEN TftpLoopExit(Logged(closed, "unexpected_ack"))
        ELSE IF s.chunk_len < BLOCK_SIZE
        THEN TftpLoopExit(closed)
        ELSE [closed EXCEPT !.block_num = (@ + 1) % 65536, !.pc = "send"]

\* an embedded engine whose timeout reports to the peer
TftpTimedOutWithError(s) ==
    TftpLoopExit(TftpSendError(
        Logged([s EXCEPT !.tx = "closed", !.live = @ - 1], "timeout"), 0, m_server))

\* server.py lines 216-218: socket.timeout from recvfrom
TftpTimedOut(s) ==
    TftpLoopExit(Logged([s EXCEPT !.tx = "closed", !.live = @ - 1], "timeout"))

\* server.py line 215 when recvfrom raises an OSError that is no timeout
TftpRecvFailed(s) ==
    TftpExcepted([s EXCEPT !.tx = "closed", !.live = @ - 1, !.f = "closed"])

\* every datagram that may reach the transfer socket of a handler that
\* sent block b
AllReplies(b) == Replies(b) \cup ForeignReplies(b)

\* C40: wherever a handler of the standalone engine stands, the embedded
\* engine given the same datagram, the same listener, the same files and
\* the same event (the validation, a failing open, a send or a failing
\* send, any reply of the peer or of a stranger, a timeout, a failing
\* receive) leaves the same record: the same packets with the same block
\* numbers, error codes and payloads, from the same kind of socket.
C40_EnginesEquivalent ==
    \A i \in Sessions :
        LET s == sessions[i]
        IN  /\ s.pc = "validate" =>
                   /\ TftpValidated(s) = Validated(s)
                   /\ TftpExcepted(Logged(s, "rrq")) = Excepted(Logged(s, "rrq"))
            /\ s.pc = "send" =>
                   /\ TftpSent(s) = Sent(s)
                   /\ TftpSendFailed(s) = SendFailed(s)
            /\ s.pc = "wait" =>
                   /\ \A reply \in AllReplies(s.lastBlock) :
                          TftpReceived(Replied(s, reply), reply)
                              = Received(Replied(s, reply), reply)
                   /\ TftpTimedOut(s) = TimedOut(s)
                   /\ TftpRecvFailed(s) = Failed(TxClose(s))

\* a handler waits for the ACK of the second block of the 1024-byte file;
\* on that ACK the embedded engine goes on to block 3, on silence it
\* closes its socket and returns without an ERROR packet
C40_Witness ==
    \E i \in Sessions :
        LET s == sessions[i]
        IN  /\ s.pc = "wait"
            /\ s.data = Rrq(s_f1024, s_octet)
            /\ s.nData = 2
            /\ s.lastVia = "tx"
            /\ TftpReceived(Replied(s, AckPacket(2)), AckPacket(2)).pc = "send"
            /\ TftpReceived(Replied(s, AckPacket(2)), AckPacket(2)).block_num = 3
            /\ TftpTimedOut(s).pc = "done"
            /\ TftpTimedOut(s).errs = <<>>
            /\ TftpTimedOut(s).live = 0

\* a request for ../secret is about to be validated with the listener open:
\* the embedded engine answers ERROR 2 from the listener socket
C40_ErrorWitness ==
    \E i \in Sessions :
        LET s == sessions[i]
        IN  /\ s.pc = "validate"
            /\ s.data = Rrq(n_up_secret, s_octet)
            /\ Len(TftpValidated(s).errs) = 1
            /\ TftpValidated(s).errs[1].via = "listener"
            /\ TftpValidated(s).errs[1].pkt = ErrorPacket(2, m_access)

====
